---- MODULE Spec2Model ----
(***************************************************************************)
(* Verification model of laminardb-fraud-detect.                           *)
(*                                                                         *)
(* Part 1: the alert engine (src/src/alerts.rs).  AlertEngine's fields are *)
(* the state; each evaluate_* method is one action that performs the whole *)
(* method, push_alert included.                                            *)
(*                                                                         *)
(* Numbers.  i64 fields are TLA+ integers.  An f64 value x is held as the  *)
(* integer x * F64_SCALE (four decimal places), and an f64 division        *)
(* followed by a comparison, n / d > t, is evaluated exactly by cross      *)
(* multiplication (DivGt, DivLt), with the IEEE-754 results for a zero or  *)
(* negative divisor.  For the magnitudes of the row sets below this agrees *)
(* with double arithmetic: rounding is monotone, and two distinct          *)
(* rationals this small never round to the same double.  NaN and infinite  *)
(* row fields are not modelled.                                            *)
(*                                                                         *)
(* Alert.latency_us and Alert.timestamp_ms are read from the clock when    *)
(* the alert is built; nothing in the engine reads them back, and they are *)
(* left out of the alert records.                                          *)
(*                                                                         *)
(* The row sets of Part 1 keep every i64 sum far inside the 64-bit range;  *)
(* the claims of Part 1 are settled for such rows.                         *)
(*                                                                         *)
(* Part 2: evaluate_volume and evaluate_wash over the full i64 range, with *)
(* the integer overflow behaviour of both build profiles.                  *)
(*                                                                         *)
(* Part 3: the synthetic generator (src/src/generator.rs).  Every value    *)
(* generate_cycle takes from the random number generator is an input of    *)
(* the action.                                                             *)
(*                                                                         *)
(* Part 4: the latency tracker (src/src/latency.rs).  An Instant is the    *)
(* reading of a monotonic clock in microseconds; the clock reading of a    *)
(* call is an input of its action, never earlier than the latest reading.  *)
(*                                                                         *)
(* Part 5: the driving loops of the three run modes (src/src/main.rs,      *)
(* web.rs, tui.rs): the loop condition, the time an iteration takes, and   *)
(* the shutdown and return after the loop.                                 *)
(* The body of an iteration is a sequence of the calls of Parts 1 to 4 and *)
(* contains no break and no return; what it does to the generator, the     *)
(* engine and the tracker is modelled there and left out here.             *)
(***************************************************************************)
EXTENDS Integers, Sequences, FiniteSets, Bags, TLC

VARIABLES
    \* AlertEngine (alerts.rs:46-56)
    next_id,
    alerts,
    vol_baselines,
    volume_ratio_threshold,
    price_range_pct_threshold,
    rapid_fire_threshold,
    wash_imbalance_threshold,
    match_price_diff_threshold,
    counts,
    \* observation of the calls made so far (not program state)
    last,        \* the most recent call: operation, row, returned Option<Alert>
    returned,    \* every alert returned so far, in order
    passed,      \* per symbol, every total_volume passed to evaluate_volume
    calls,       \* number of evaluate_* calls made
    \* the build profile: TRUE when integer overflow checks are compiled in
    \* (cargo's dev and test profiles), FALSE when they are not (release)
    overflow_checks,
    \* FraudGenerator (generator.rs:32-39)
    prices,
    order_seq,
    trade_seq,
    fraud_rate,
    manipulation_remaining,
    manipulation_symbol,
    \* observation of the generate_cycle calls made so far (not program state)
    cycle,       \* the most recent call: its inputs, draws and result
    cycles,      \* number of generate_cycle calls made
    \* LatencyTracker (latency.rs:24-29)
    push_latencies,
    processing_latencies,
    alert_latencies,
    last_push_instant,
    \* the monotonic clock behind Instant::now(): its latest reading
    now,
    \* observation of the tracker calls made so far (not program state)
    lat,         \* the most recent call: operation, tracker before, result
    recorded,    \* per window, every sample recorded since the last reset
    lat_calls,   \* number of tracker calls counted by a bounded driver
    \* the run: Cli (main.rs:14-30) and the state of the driving loop
    mode,        \* --mode
    duration,    \* --duration, in seconds
    uptime,      \* whole seconds on the clock since the loop's `start`
    should_quit, \* App::should_quit (tui.rs:31), FALSE in the other modes
    pc,          \* "setup", "loop" while the driving loop runs, "after_loop",
                 \* "shut_down", then "done" when the driving function returned
    run_returned,\* TRUE once the mode's run function has returned to main
    clock_ms,    \* milliseconds on the monotonic clock since the loop's `start`
    wall,        \* latest reading of now_ms(), relative to the reading at `start`
    \* DetectionPipeline (detection.rs:5-15) and what the driver told its sources
    db,          \* "none" before setup, "running", "shut_down"
    streams_created,
    subs,        \* per detection stream: TRUE for Some(subscription)
    watermark,   \* per source: <<>> or <<W>>, the latest watermark passed
    events,      \* per source: every record pushed to it, in order
    \* observation of setup and of the driving loop (not program state)
    setup_result,\* what detection::setup returned ("none" before it ran, "Ok",
                 \* "Err") and the faults it met
    pushed,      \* the most recent iteration: what it pushed, after which watermarks
    polled,      \* the streams the most recent iteration polled, in order
    \* web mode: the broadcast channel and one WebSocket client
    channel,     \* broadcast::channel (web.rs:51): retained messages, number
                 \* stored, live receivers; and the updates run_engine built
    rx,          \* the client's Receiver: "none", "open", or how the
                 \* forwarding loop ended; the position it reads next
    socket,      \* what the client's socket was sent, and whether it is open
    \* two more AlertEngines whose alerts carry latency_us and timestamp_ms
    twin

engineVars == <<next_id, alerts, vol_baselines, counts>>
thresholdVars == <<volume_ratio_threshold, price_range_pct_threshold,
                   rapid_fire_threshold, wash_imbalance_threshold,
                   match_price_diff_threshold>>
obsVars == <<last, returned, passed, calls>>
genVars == <<prices, order_seq, trade_seq, fraud_rate,
             manipulation_remaining, manipulation_symbol>>
genObsVars == <<cycle, cycles>>
trackerVars == <<push_latencies, processing_latencies, alert_latencies,
                 last_push_instant>>
trackerObsVars == <<now, lat, recorded, lat_calls>>
runVars == <<mode, duration, uptime, should_quit, pc>>
hostVars == <<run_returned, clock_ms, wall>>
pipelineVars == <<db, streams_created, subs, watermark, events>>
driveObsVars == <<setup_result, pushed, polled>>
webVars == <<channel, rx, socket>>
\* what the driver of a run owns beside its loop control
driverVars == <<hostVars, pipelineVars, driveObsVars, webVars>>
twinVars == <<twin>>
\* what no AlertEngine method can reach
outsideEngine == <<overflow_checks, genVars, genObsVars, trackerVars,
                   trackerObsVars, runVars, driverVars, twinVars>>
\* what no FraudGenerator method can reach
outsideGenerator == <<engineVars, thresholdVars, obsVars, overflow_checks,
                      trackerVars, trackerObsVars, runVars, driverVars,
                      twinVars>>
\* what no LatencyTracker method can reach
outsideTracker == <<engineVars, thresholdVars, obsVars, overflow_checks,
                    genVars, genObsVars, runVars, driverVars, twinVars>>
\* what the loop condition of a driving loop cannot reach
outsideLoop == <<engineVars, thresholdVars, obsVars, overflow_checks,
                 genVars, genObsVars, trackerVars, trackerObsVars, driverVars,
                 twinVars>>
\* the components a driving loop calls into
components == <<engineVars, thresholdVars, obsVars, overflow_checks,
                genVars, genObsVars, trackerVars, trackerObsVars, twinVars>>
vars == <<engineVars, thresholdVars, obsVars, overflow_checks, genVars,
          genObsVars, trackerVars, trackerObsVars, runVars, driverVars,
          twinVars>>

----------------------------------------------------------------------------
\* Program constants

\* f64 values are held in units of 1/F64_SCALE.
F64_SCALE == 10000

\* alerts.rs:87  `if self.alerts.len() >= 200`
ALERTS_CAP == 200
\* alerts.rs:101 `if history.len() >= 20`
VOL_HISTORY_CAP == 20

\* The f64 literal k/1000.
Milli(k) == k * (F64_SCALE \div 1000)

\* alerts.rs:64-68, AlertEngine::new: 2.0, 0.002, 5, 0.3, 1.0
DEFAULT_VOLUME_RATIO_THRESHOLD == Milli(2000)
DEFAULT_PRICE_RANGE_PCT_THRESHOLD == Milli(2)
DEFAULT_RAPID_FIRE_THRESHOLD == 5
DEFAULT_WASH_IMBALANCE_THRESHOLD == Milli(300)
DEFAULT_MATCH_PRICE_DIFF_THRESHOLD == Milli(1000)

----------------------------------------------------------------------------
\* Bounds of the model

\* evaluate_* calls explored with every row free (specification Spec)
MaxCalls == 2
\* SpecVolume: calls with a free row, then calls with the background row
FreeVolumeCalls == 3
MaxBackgroundCalls == 22
\* SpecBuffer: calls with a free row, then background alerts until the
\* buffer has overflowed by MaxOverflow alerts
FreeBufferCalls == 2
MaxOverflow == 3

----------------------------------------------------------------------------
\* Helpers

RECURSIVE SumSeq(_)
SumSeq(s) == IF s = <<>> THEN 0 ELSE Head(s) + SumSeq(Tail(s))

\* Rust integer division truncates toward zero (d > 0 here).
TruncDiv(n, d) == IF n >= 0 THEN n \div d ELSE -((-n) \div d)

Abs(x) == IF x < 0 THEN -x ELSE x

\* The f64 test `n / d > t` (t scaled by F64_SCALE; n, d in one unit).
\* n / 0 is +inf, -inf or NaN by the sign of n.
DivGt(n, d, t) ==
    IF d > 0 THEN n * F64_SCALE > t * d
    ELSE IF d < 0 THEN n * F64_SCALE < t * d
    ELSE n > 0

\* The f64 test `n / d < t`.
DivLt(n, d, t) ==
    IF d > 0 THEN n * F64_SCALE < t * d
    ELSE IF d < 0 THEN n * F64_SCALE > t * d
    ELSE n < 0

Min(a, b) == IF a <= b THEN a ELSE b

\* The last n elements of s, in order.
LastN(s, n) == SubSeq(s, Len(s) - Min(n, Len(s)) + 1, Len(s))

\* HashMap insert / overwrite of one key.
Put(m, k, v) == [x \in DOMAIN m \cup {k} |-> IF x = k THEN v ELSE m[x]]

\* HashMap lookup with a default for an absent key.
GetOr(m, k, d) == IF k \in DOMAIN m THEN m[k] ELSE d

EmptyMap == [x \in {} |-> 0]

----------------------------------------------------------------------------
\* Rows handed to the engine (types.rs:31-80); only the fields the engine
\* reads are kept.

Symbols == {"AAPL", "MSFT"}

Volumes == {-3, 0, 1, 2, 3, 5, 6, 10, 11, 700, 2000}

VolumeRows == [symbol : Symbols, total_volume : Volumes]

\* open, high, low, price_range are independent f64 fields of the row.
OhlcRows ==
    [symbol : {"AAPL"}, open : {10000}, high : {10100}, low : {10000, 10100},
     price_range : {0, 20, 21, 100, 101, 500, 501}]
    \cup
    [symbol : {"AAPL"}, open : {0, -10000}, high : {10100}, low : {10000},
     price_range : {0, 501}]

RapidFireRows ==
    [account_id : {"FRAUD-1"}, burst_trades : {-1, 0, 4, 5, 20, 21, 50, 51},
     burst_volume : {100}]

WashVolumes ==
    {<<200, 200>>, <<101, 99>>, <<102, 98>>, <<104, 96>>, <<105, 95>>,
     <<129, 71>>, <<130, 70>>, <<70, 130>>, <<71, 129>>, <<200, 0>>,
     <<0, 0>>, <<-5, -5>>, <<-5, 4>>}

WashCounts == {<<2, 2>>, <<3, 5>>, <<1, 2>>, <<2, 1>>, <<0, 0>>}

WashRows ==
    {[account_id |-> "FRAUD-1", symbol |-> "AAPL",
      buy_volume |-> v[1], sell_volume |-> v[2],
      buy_count |-> c[1], sell_count |-> c[2]] :
        v \in WashVolumes, c \in {<<2, 2>>, <<3, 5>>}}
    \cup
    {[account_id |-> "FRAUD-1", symbol |-> "AAPL",
      buy_volume |-> v[1], sell_volume |-> v[2],
      buy_count |-> c[1], sell_count |-> c[2]] :
        v \in {<<200, 200>>, <<129, 71>>}, c \in WashCounts}

MatchRows ==
    [symbol : {"AAPL"}, account_id : {"ACCT-1"}, order_id : {"ORD-1"},
     price_diff : {0, 9, -9, 10, -10, 9999, -9999, 10000, -10000, 20000}]

----------------------------------------------------------------------------
\* AlertEngine

\* alerts.rs:24-34  AlertType::label
AlertTypes == {"VolumeAnomaly", "PriceSpike", "RapidFire", "WashTrading",
               "SuspiciousMatch"}

\* alerts.rs:81-83  total_alerts: the sum of the per-type counters
RECURSIVE SumCounts(_, _)
SumCounts(m, keys) ==
    IF keys = {} THEN 0
    ELSE LET k == CHOOSE x \in keys : TRUE
         IN m[k] + SumCounts(m, keys \ {k})

total_alerts == SumCounts(counts, DOMAIN counts)

\* alerts.rs:73-75
recent_alerts == alerts

\* Faulty variant of PushBuffer: pop_back in place of pop_front.
PushBuffer_EvictNewest(buf, alert) ==
    Append(IF Len(buf) >= ALERTS_CAP THEN SubSeq(buf, 1, Len(buf) - 1) ELSE buf,
           alert)

\* alerts.rs:87-90  the bounded buffer part of push_alert
PushBuffer(buf, alert) ==
    Append(IF Len(buf) >= ALERTS_CAP THEN Tail(buf) ELSE buf, alert)

\* Faulty variant of BumpCount: the counter is set to 1, not incremented.
BumpCount_Reset(m, label) == Put(m, label, 1)

\* alerts.rs:86  the counter part of push_alert
BumpCount(m, label) == Put(m, label, GetOr(m, label, 0) + 1)

\* Faulty variant of VolumeAvg: a cold start averages to 1.
VolumeAvg_ColdStartOne(history, total_volume) ==
    IF history = <<>> THEN 1
    ELSE TruncDiv(SumSeq(history), Len(history))

\* Faulty variant of VolumeAvg: the average is taken after the append.
VolumeAvg_IncludesCurrent(history, total_volume) ==
    TruncDiv(SumSeq(history) + total_volume, Len(history) + 1)

\* alerts.rs:95-99  the average used for the current evaluation
VolumeAvg(history, total_volume) ==
    IF history = <<>> THEN total_volume
    ELSE TruncDiv(SumSeq(history), Len(history))

\* Faulty variant of PushHistory: `>` in place of `>=`.
PushHistory_OffByOne(history, total_volume) ==
    Append(IF Len(history) > VOL_HISTORY_CAP THEN Tail(history) ELSE history,
           total_volume)

\* alerts.rs:101-104  the history update
PushHistory(history, total_volume) ==
    Append(IF Len(history) >= VOL_HISTORY_CAP THEN Tail(history) ELSE history,
           total_volume)

\* alerts.rs:106-108  `avg > 0` and `volume / avg > volume_ratio_threshold`
VolumeHit(total_volume, avg, threshold) ==
    avg > 0 /\ DivGt(total_volume, avg, threshold)

\* Faulty variant of VolumeSeverity: `>=` in place of `>`.
VolumeSeverity_Inclusive(total_volume, avg) ==
    IF ~DivLt(total_volume, avg, Milli(10000)) THEN "Critical"
    ELSE IF ~DivLt(total_volume, avg, Milli(5000)) THEN "High"
    ELSE "Medium"

\* alerts.rs:109-115  (ratio > 10.0, ratio > 5.0, else)
VolumeSeverity(total_volume, avg) ==
    IF DivGt(total_volume, avg, Milli(10000)) THEN "Critical"
    ELSE IF DivGt(total_volume, avg, Milli(5000)) THEN "High"
    ELSE "Medium"

\* Faulty variant of OhlcHit: the range recomputed from high and low.
OhlcHit_HighLow(row, threshold) ==
    row.open > 0 /\ DivGt(row.high - row.low, row.open, threshold)

\* alerts.rs:133-135  `open > 0.0` and `price_range / open > threshold`
OhlcHit(row, threshold) ==
    row.open > 0 /\ DivGt(row.price_range, row.open, threshold)

\* alerts.rs:136-142  (range_pct > 0.05, range_pct > 0.01, else)
OhlcSeverity(row) ==
    IF DivGt(row.price_range, row.open, Milli(50)) THEN "Critical"
    ELSE IF DivGt(row.price_range, row.open, Milli(10)) THEN "High"
    ELSE "Medium"

\* Faulty variant of RapidFireHit: `>` in place of `>=`.
RapidFireHit_Strict(row, threshold) == row.burst_trades > threshold

\* alerts.rs:160
RapidFireHit(row, threshold) == row.burst_trades >= threshold

\* alerts.rs:161-167
RapidFireSeverity(row) ==
    IF row.burst_trades > 50 THEN "Critical"
    ELSE IF row.burst_trades > 20 THEN "High"
    ELSE "Medium"

\* alerts.rs:184  `let total = row.buy_volume + row.sell_volume`
WashTotal(row) == row.buy_volume + row.sell_volume

\* alerts.rs:186  `(buy_volume - sell_volume).unsigned_abs()`
WashDiff(row) == Abs(row.buy_volume - row.sell_volume)

\* Faulty variant of WashHit: the `total > 0` guard dropped.
WashHit_NoTotalGuard(row, threshold) ==
    /\ row.buy_count >= 2
    /\ row.sell_count >= 2
    /\ DivLt(WashDiff(row), WashTotal(row), threshold)

\* alerts.rs:185-187  guard, then `imbalance < threshold` with
\* imbalance = |buy_volume - sell_volume| / total
WashHit(row, threshold) ==
    /\ WashTotal(row) > 0
    /\ row.buy_count >= 2
    /\ row.sell_count >= 2
    /\ DivLt(WashDiff(row), WashTotal(row), threshold)

\* alerts.rs:188-194  (imbalance < 0.02, imbalance < 0.05, else)
WashSeverity(row) ==
    IF DivLt(WashDiff(row), WashTotal(row), Milli(20)) THEN "Critical"
    ELSE IF DivLt(WashDiff(row), WashTotal(row), Milli(50)) THEN "High"
    ELSE "Medium"

\* Faulty variant of MatchHit: `.abs()` dropped.
MatchHit_Signed(row, threshold) == row.price_diff < threshold

\* alerts.rs:212
MatchHit(row, threshold) == Abs(row.price_diff) < threshold

\* alerts.rs:213-217  (|price_diff| < 0.001, else)
MatchSeverity(row) ==
    IF Abs(row.price_diff) < Milli(1) THEN "High" ELSE "Medium"

\* Faulty variant of NextAlertId: the id read before the increment.
NextAlertId_BeforeIncrement == next_id

\* alerts.rs:116-118 and the like: `self.next_id += 1; ... id: self.next_id`
NextAlertId == next_id + 1

\* The Alert built by an evaluate_* method (alerts.rs:117-124 and the
\* like); description holds the values the format string prints.
MakeAlert(type, severity, description) ==
    [id |-> NextAlertId, alert_type |-> type, severity |-> severity,
     description |-> description]

\* `self.next_id += 1; ... self.push_alert(alert.clone()); return Some(alert)`
Raise(alert) ==
    /\ next_id' = next_id + 1
    /\ counts' = BumpCount(counts, alert.alert_type)
    /\ alerts' = PushBuffer(alerts, alert)
    /\ returned' = Append(returned, alert)

\* Faulty variant of NoRaise: an id is consumed although no alert is built.
NoRaise_ConsumesId ==
    /\ next_id' = next_id + 1
    /\ UNCHANGED <<counts, alerts>>
    /\ returned' = returned

\* `None`: the method falls through without touching ids, buffer, counters.
NoRaise ==
    /\ UNCHANGED <<next_id, counts, alerts>>
    /\ returned' = returned

\* alerts.rs:93-130
EvaluateVolume(row) ==
    LET fresh == row.symbol \notin DOMAIN vol_baselines
        history == GetOr(vol_baselines, row.symbol, <<>>)
        avg == VolumeAvg(history, row.total_volume)
        alert == MakeAlert("VolumeAnomaly",
                           VolumeSeverity(row.total_volume, avg),
                           <<row.symbol, row.total_volume, avg>>)
        hit == VolumeHit(row.total_volume, avg, volume_ratio_threshold)
    IN /\ vol_baselines' =
            Put(vol_baselines, row.symbol, PushHistory(history, row.total_volume))
       /\ IF hit THEN Raise(alert) ELSE NoRaise
       /\ last' = [op |-> "volume", row |-> row,
                   ret |-> IF hit THEN <<alert>> ELSE <<>>,
                   fresh |-> fresh, history |-> history]
       /\ passed' = Put(passed, row.symbol,
                        Append(GetOr(passed, row.symbol, <<>>), row.total_volume))
       /\ calls' = calls + 1
       /\ UNCHANGED <<thresholdVars, outsideEngine>>

\* alerts.rs:132-157
EvaluateOhlc(row) ==
    LET alert == MakeAlert("PriceSpike", OhlcSeverity(row),
                           <<row.symbol, row.price_range, row.open, row.high, row.low>>)
        hit == OhlcHit(row, price_range_pct_threshold)
    IN /\ IF hit THEN Raise(alert) ELSE NoRaise
       /\ last' = [op |-> "ohlc", row |-> row,
                   ret |-> IF hit THEN <<alert>> ELSE <<>>]
       /\ calls' = calls + 1
       /\ UNCHANGED <<vol_baselines, thresholdVars, passed, outsideEngine>>

\* alerts.rs:159-181
EvaluateRapidFire(row) ==
    LET alert == MakeAlert("RapidFire", RapidFireSeverity(row),
                           <<row.account_id, row.burst_trades, row.burst_volume>>)
        hit == RapidFireHit(row, rapid_fire_threshold)
    IN /\ IF hit THEN Raise(alert) ELSE NoRaise
       /\ last' = [op |-> "rapid_fire", row |-> row,
                   ret |-> IF hit THEN <<alert>> ELSE <<>>]
       /\ calls' = calls + 1
       /\ UNCHANGED <<vol_baselines, thresholdVars, passed, outsideEngine>>

\* alerts.rs:183-209
EvaluateWash(row) ==
    LET alert == MakeAlert("WashTrading", WashSeverity(row),
                           <<row.account_id, row.symbol, row.buy_volume, row.sell_volume>>)
        hit == WashHit(row, wash_imbalance_threshold)
    IN /\ IF hit THEN Raise(alert) ELSE NoRaise
       /\ last' = [op |-> "wash", row |-> row,
                   ret |-> IF hit THEN <<alert>> ELSE <<>>]
       /\ calls' = calls + 1
       /\ UNCHANGED <<vol_baselines, thresholdVars, passed, outsideEngine>>

\* alerts.rs:211-231
EvaluateMatch(row) ==
    LET alert == MakeAlert("SuspiciousMatch", MatchSeverity(row),
                           <<row.account_id, row.symbol, row.order_id, row.price_diff>>)
        hit == MatchHit(row, match_price_diff_threshold)
    IN /\ IF hit THEN Raise(alert) ELSE NoRaise
       /\ last' = [op |-> "match", row |-> row,
                   ret |-> IF hit THEN <<alert>> ELSE <<>>]
       /\ calls' = calls + 1
       /\ UNCHANGED <<vol_baselines, thresholdVars, passed, outsideEngine>>

----------------------------------------------------------------------------
\* FraudGenerator: constants and construction

\* generator.rs:6-12  (symbol, base price)
SYMBOLS ==
    <<<<"AAPL", 150>>, <<"GOOGL", 2800>>, <<"MSFT", 420>>, <<"AMZN", 185>>,
      <<"TSLA", 250>>>>

SymbolNames == {SYMBOLS[i][1] : i \in DOMAIN SYMBOLS}

\* generator.rs:14
NORMAL_ACCOUNTS == <<"ACCT-001", "ACCT-002", "ACCT-003", "ACCT-004", "ACCT-005">>
\* generator.rs:15
FRAUD_ACCOUNTS == <<"FRAUD-01", "FRAUD-02", "FRAUD-03">>

\* generator.rs:18-30
ALL_SCENARIOS == <<"VolumeSpike", "PriceManipulation", "RapidFire", "WashTrading">>

\* main.rs:24-25  `default_value = "0.05"`
DEFAULT_FRAUD_RATE == Milli(50)

\* generator.rs:44-46  the base price of a symbol
BaseOf(sym) == SYMBOLS[CHOOSE i \in DOMAIN SYMBOLS : SYMBOLS[i][1] = sym][2]

\* A tracked price is its base value times every factor it was multiplied
\* by since construction; a factor is the rational <<numerator, denominator>>
\* and `moves` is the bag of the factors applied.
PriceAtBase(base) == [base |-> base, moves |-> EmptyBag]

\* generator.rs:42-55  FraudGenerator::new
GenNew(rate) ==
    /\ prices = [sym \in SymbolNames |->
                    PriceAtBase(BaseOf(sym))]
    /\ order_seq = 0
    /\ trade_seq = 0
    /\ fraud_rate = rate
    /\ manipulation_remaining = 0
    /\ manipulation_symbol = <<>>

NoCyclesYet ==
    /\ cycle = [outcome |-> "none", scenario |-> "none", trades |-> <<>>,
                orders |-> <<>>, armed_ago |-> -1, armed_for |-> <<>>,
                total_trades |-> 0, total_orders |-> 0]
    /\ cycles = 0

\* LatencyTracker: constants and construction

\* latency.rs:6
WINDOW_SIZE == 1000

\* The tracker's fields as one value.
Tracker ==
    [push_latencies |-> push_latencies,
     processing_latencies |-> processing_latencies,
     alert_latencies |-> alert_latencies,
     last_push_instant |-> last_push_instant]

\* latency.rs:32-39  LatencyTracker::new
LatencyNew ==
    /\ push_latencies = <<>>
    /\ processing_latencies = <<>>
    /\ alert_latencies = <<>>
    /\ last_push_instant = <<>>

NoSamplesYet ==
    [push |-> <<>>, processing |-> <<>>, alert |-> <<>>, push_ends |-> <<>>]

NoTrackerCallsYet ==
    /\ now = 0
    /\ lat = [op |-> "none", ret |-> <<>>, before |-> Tracker, at |-> 0]
    /\ recorded = NoSamplesYet
    /\ lat_calls = 0

\* A tracker that is constructed and left alone.
TrackerIdle == LatencyNew /\ NoTrackerCallsYet

\* The run: command line and driving loop

\* main.rs:35-40  the modes main dispatches on
MODES == {"tui", "web", "headless"}

\* main.rs:28  `default_value = "0"`
DEFAULT_DURATION == 0

\* main.rs:61, web.rs:106, tui.rs:90  `Duration::from_secs(3600)`
ZERO_DURATION_SECS == 3600

\* detection.rs:52-123  the five detection streams, in creation order
STREAMS == <<"vol_baseline", "ohlc_vol", "rapid_fire", "wash_score",
             "suspicious_match">>

\* detection.rs:24-48  the two sources
SOURCES == {"trades", "orders"}

\* web.rs:51  `broadcast::channel::<String>(256)`
CHANNEL_CAPACITY == 256

\* No watermark has been passed to either source.
NoWatermarks == [src \in SOURCES |-> <<>>]

\* Nothing has been pushed to either source.
NoEvents == [src \in SOURCES |-> <<>>]

\* The observation of a loop that has not completed an iteration.
NoIterationYet ==
    /\ pushed = [n |-> 0, ts |-> 0, times |-> [src \in SOURCES |-> {}],
                 before |-> NoWatermarks]
    /\ polled = <<>>

StreamNames == {STREAMS[i] : i \in 1..Len(STREAMS)}

\* What can go wrong in detection::setup: the statement ended by `?` that
\* fails ("none" when none does), and per stream whether its CREATE STREAM
\* and its subscribe call succeed.
NoFaults ==
    [fails |-> "none", created |-> [name \in StreamNames |-> TRUE],
     subscribed |-> [name \in StreamNames |-> TRUE]]

\* The pipeline detection::setup returns when every statement succeeds
\* (detection.rs:17-165).
PipelineReady ==
    /\ db = "running"
    /\ streams_created = [i \in 1..Len(STREAMS) |-> <<STREAMS[i], TRUE>>]
    /\ subs = [name \in StreamNames |-> TRUE]
    /\ watermark = NoWatermarks
    /\ events = NoEvents
    /\ setup_result = [result |-> "Ok", faults |-> NoFaults]

\* web.rs:51  a channel nothing was sent on; no WebSocket client yet
NoClients ==
    /\ channel = [buffer |-> <<>>, tail |-> 0, receivers |-> 0, updates |-> 0]
    /\ rx = [state |-> "none", next |-> 0, since |-> 0]
    /\ socket = [open |-> FALSE, got |-> <<>>]

\* alerts.rs:59-71  AlertEngine::new as one value, with the alerts the
\* engine returned so far and its latest return value
TimedEngineNew ==
    [next_id |-> 0, alerts |-> <<>>, vol_baselines |-> [x \in {} |-> 0],
     counts |-> [x \in {} |-> 0], returned |-> <<>>, ret |-> <<>>]

\* Two fresh engines, nothing evaluated yet.
NoTwinCallsYet == twin = [a |-> TimedEngineNew, b |-> TimedEngineNew, calls |-> 0]

\* A run in mode m with --duration d whose driving loop is about to test
\* its condition for the first time.
RunAt(m, d) ==
    /\ mode = m
    /\ duration = d
    /\ uptime = 0
    /\ should_quit = FALSE
    /\ pc = "loop"
    /\ run_returned = FALSE
    /\ clock_ms = 0
    /\ wall = 0
    /\ PipelineReady
    /\ NoIterationYet
    /\ NoClients
    /\ NoTwinCallsYet

\* A run with the default command line (main.rs:16, 28).
DefaultRun == RunAt("tui", DEFAULT_DURATION)

----------------------------------------------------------------------------
\* Specification Spec: a fresh engine with the default thresholds, driven by
\* any interleaving of the five evaluate operations on any rows.

\* alerts.rs:59-71  AlertEngine::new, without the thresholds
EngineNew ==
    /\ next_id = 0
    /\ alerts = <<>>
    /\ vol_baselines = EmptyMap
    /\ counts = EmptyMap

\* alerts.rs:64-68
DefaultThresholds ==
    /\ volume_ratio_threshold = DEFAULT_VOLUME_RATIO_THRESHOLD
    /\ price_range_pct_threshold = DEFAULT_PRICE_RANGE_PCT_THRESHOLD
    /\ rapid_fire_threshold = DEFAULT_RAPID_FIRE_THRESHOLD
    /\ wash_imbalance_threshold = DEFAULT_WASH_IMBALANCE_THRESHOLD
    /\ match_price_diff_threshold = DEFAULT_MATCH_PRICE_DIFF_THRESHOLD

NoCallsYet ==
    /\ last = [op |-> "none", ret |-> <<>>]
    /\ returned = <<>>
    /\ passed = EmptyMap
    /\ calls = 0

\* main.rs:54-55 (and tui.rs:86, web.rs:96): the generator and the engine
\* of one run, under either build profile
RunStart ==
    /\ overflow_checks \in BOOLEAN
    /\ GenNew(DEFAULT_FRAUD_RATE)
    /\ NoCyclesYet
    /\ TrackerIdle
    /\ DefaultRun

Init == EngineNew /\ DefaultThresholds /\ NoCallsYet /\ RunStart

VolumeCall == calls < MaxCalls /\ \E row \in VolumeRows : EvaluateVolume(row)
OhlcCall == calls < MaxCalls /\ \E row \in OhlcRows : EvaluateOhlc(row)
RapidFireCall == calls < MaxCalls /\ \E row \in RapidFireRows : EvaluateRapidFire(row)
WashCall == calls < MaxCalls /\ \E row \in WashRows : EvaluateWash(row)
MatchCall == calls < MaxCalls /\ \E row \in MatchRows : EvaluateMatch(row)

Next == VolumeCall \/ OhlcCall \/ RapidFireCall \/ WashCall \/ MatchCall

Spec == Init /\ [][Next]_vars

----------------------------------------------------------------------------
\* Specification SpecVolume: a long stream of Volume Baseline rows.  The
\* first FreeVolumeCalls rows are free; the stream then continues with a
\* steady row for one symbol, long enough for its history to overflow, and
\* ends with one more free row.

ProbeVolumeRows ==
    [symbol : {"AAPL"}, total_volume : {-3, 0, 1, 2, 3, 6, 11}]
    \cup [symbol : {"MSFT"}, total_volume : {1, 3}]

BackgroundVolumeRow == [symbol |-> "AAPL", total_volume |-> 3]

VolumeProbe ==
    /\ \/ calls < FreeVolumeCalls
       \/ calls = FreeVolumeCalls + MaxBackgroundCalls
    /\ \E row \in ProbeVolumeRows : EvaluateVolume(row)

VolumeBackground ==
    /\ calls >= FreeVolumeCalls
    /\ calls < FreeVolumeCalls + MaxBackgroundCalls
    /\ EvaluateVolume(BackgroundVolumeRow)

NextVolume == VolumeProbe \/ VolumeBackground

SpecVolume == Init /\ [][NextVolume]_vars

----------------------------------------------------------------------------
\* Specification SpecBuffer: enough alerts to overflow the recent-alert
\* buffer.  The first FreeBufferCalls calls are free over all five
\* operations; the run then continues with a steady alerting row.

ProbeOhlcRows ==
    [symbol : {"AAPL"}, open : {10000}, high : {10100}, low : {10000},
     price_range : {0, 501}]

ProbeRapidFireRows ==
    [account_id : {"FRAUD-1"}, burst_trades : {4, 21}, burst_volume : {100}]

ProbeWashRows ==
    [account_id : {"FRAUD-1"}, symbol : {"AAPL"}, buy_volume : {200},
     sell_volume : {200}, buy_count : {1, 2}, sell_count : {2}]

ProbeMatchRows ==
    [symbol : {"AAPL"}, account_id : {"ACCT-1"}, order_id : {"ORD-1"},
     price_diff : {0, 20000}]

ProbeBufferVolumeRows == [symbol : {"AAPL"}, total_volume : {1, 3}]

BackgroundRapidFireRow ==
    [account_id |-> "FRAUD-2", burst_trades |-> 5, burst_volume |-> 100]

AnyProbe ==
    \/ \E row \in ProbeBufferVolumeRows : EvaluateVolume(row)
    \/ \E row \in ProbeOhlcRows : EvaluateOhlc(row)
    \/ \E row \in ProbeRapidFireRows : EvaluateRapidFire(row)
    \/ \E row \in ProbeWashRows : EvaluateWash(row)
    \/ \E row \in ProbeMatchRows : EvaluateMatch(row)

BufferProbe == calls < FreeBufferCalls /\ AnyProbe

BufferBackground ==
    /\ calls >= FreeBufferCalls
    /\ next_id < ALERTS_CAP + MaxOverflow
    /\ EvaluateRapidFire(BackgroundRapidFireRow)

NextBuffer == BufferProbe \/ BufferBackground

SpecBuffer == Init /\ [][NextBuffer]_vars

----------------------------------------------------------------------------
\* Specification SpecMatch: an engine whose match_price_diff_threshold (a
\* pub field) was set to another value after construction.

MatchThresholds == {-Milli(1000), 0, Milli(1) \div 2, Milli(1000), Milli(5000)}

InitMatch ==
    /\ EngineNew
    /\ volume_ratio_threshold = DEFAULT_VOLUME_RATIO_THRESHOLD
    /\ price_range_pct_threshold = DEFAULT_PRICE_RANGE_PCT_THRESHOLD
    /\ rapid_fire_threshold = DEFAULT_RAPID_FIRE_THRESHOLD
    /\ wash_imbalance_threshold = DEFAULT_WASH_IMBALANCE_THRESHOLD
    /\ match_price_diff_threshold \in MatchThresholds
    /\ NoCallsYet
    /\ RunStart

OtherCall == calls < MaxCalls /\ AnyProbe

NextMatch == MatchCall \/ OtherCall

SpecMatch == InitMatch /\ [][NextMatch]_vars

----------------------------------------------------------------------------
\* Claims about evaluate_volume

LastAlert == last.ret[1]

\* The observations of the last volume row's symbol made before that row.
EarlierVolumes ==
    LET all == passed[last.row.symbol] IN SubSeq(all, 1, Len(all) - 1)

\* The up-to-20 most recent of them.
EarlierWindow == LastN(EarlierVolumes, VOL_HISTORY_CAP)

\* C1: with default thresholds, after any earlier evaluate_* calls, the
\* first evaluate_volume call for a symbol never observed before returns no
\* alert, whatever total_volume is.
C1_FirstObservationNeverAlerts ==
    (last.op = "volume" /\ last.fresh) => last.ret = <<>>

C1_Witness ==
    /\ last.op = "volume" /\ last.fresh
    /\ last.row.total_volume = 2000
    /\ calls = 2 /\ returned # <<>>

C3_HistoryIsLastTwenty ==
    /\ DOMAIN vol_baselines = DOMAIN passed
    /\ \A sym \in DOMAIN passed :
          /\ vol_baselines[sym] = LastN(passed[sym], VOL_HISTORY_CAP)
          /\ Len(vol_baselines[sym]) = Min(Len(passed[sym]), VOL_HISTORY_CAP)
          /\ Len(vol_baselines[sym]) <= VOL_HISTORY_CAP

C3_Witness ==
    /\ "AAPL" \in DOMAIN passed
    /\ Len(passed["AAPL"]) > VOL_HISTORY_CAP + 1
    /\ passed["AAPL"][1] # 3 /\ passed["AAPL"][2] # passed["AAPL"][1]
    /\ Len(vol_baselines["AAPL"]) = VOL_HISTORY_CAP
    /\ returned # <<>>
    /\ last.op = "volume" /\ last.ret = <<>>

\* C4: every alert returned by evaluate_volume is a VolumeAnomaly, Medium
\* when the ratio (total_volume over the average the method used) is at
\* most 5.0, High above 5.0 and up to 10.0, Critical above 10.0; on a fresh
\* engine total_volume 700 then 2000 for one symbol gives no alert and then
\* a Medium VolumeAnomaly alert.
C4_VolumeSeverityTiers ==
    /\ (last.op = "volume" /\ last.ret # <<>>) =>
          LET avg == TruncDiv(SumSeq(EarlierWindow), Len(EarlierWindow))
              v == last.row.total_volume
          IN /\ LastAlert.alert_type = "VolumeAnomaly"
             /\ LastAlert.severity =
                    IF v > 10 * avg THEN "Critical"
                    ELSE IF v > 5 * avg THEN "High"
                    ELSE "Medium"
    /\ \A sym \in DOMAIN passed :
          /\ (calls = 1 /\ passed[sym] = <<700>>) => last.ret = <<>>
          /\ (calls = 2 /\ passed[sym] = <<700, 2000>>) =>
                /\ Len(returned) = 1
                /\ last.ret = <<returned[1]>>
                /\ returned[1].alert_type = "VolumeAnomaly"
                /\ returned[1].severity = "Medium"

C4_Witness ==
    /\ calls = 2 /\ "AAPL" \in DOMAIN passed
    /\ passed["AAPL"] = <<700, 2000>>
    /\ last.ret # <<>>

----------------------------------------------------------------------------
\* Claims about the stateless evaluations

SeverityRank(sev) ==
    CASE sev = "Medium" -> 1 [] sev = "High" -> 2 [] sev = "Critical" -> 3

\* C5: with default thresholds evaluate_rapid_fire returns an alert iff
\* burst_trades >= 5, in any engine state; Medium for 5..20, High for
\* 21..50, Critical above 50, so severity never decreases when burst_trades
\* increases.
C5_RapidFireIffAtLeastFive ==
    /\ last.op = "rapid_fire" =>
          /\ last.ret # <<>> <=> last.row.burst_trades >= 5
          /\ last.ret # <<>> =>
                /\ LastAlert.alert_type = "RapidFire"
                /\ LastAlert.severity =
                       IF last.row.burst_trades <= 20 THEN "Medium"
                       ELSE IF last.row.burst_trades <= 50 THEN "High"
                       ELSE "Critical"
    /\ \A i, j \in 1..Len(returned) :
          (/\ returned[i].alert_type = "RapidFire"
           /\ returned[j].alert_type = "RapidFire"
           /\ returned[i].description[2] <= returned[j].description[2])
          => SeverityRank(returned[i].severity) <= SeverityRank(returned[j].severity)

C5_Witness ==
    /\ last.op = "rapid_fire" /\ last.row.burst_trades = 5
    /\ last.ret # <<>> /\ LastAlert.severity = "Medium"
    /\ Len(returned) = 2 /\ returned[1].alert_type = "RapidFire"
    /\ returned[1].severity = "Critical"

C7_AlertIffHighLowRange ==
    last.op = "ohlc" =>
        LET row == last.row
            range == row.high - row.low
        IN /\ last.ret # <<>> <=>
                (row.open > 0 /\ range * 1000 > 2 * row.open)
           /\ last.ret # <<>> =>
                LastAlert.severity =
                    IF range * 100 > 5 * row.open THEN "Critical"
                    ELSE IF range * 100 > row.open THEN "High"
                    ELSE "Medium"

\* C7 amended: evaluate_ohlc returns an alert exactly when open > 0 and
\* price_range / open > price_range_pct_threshold (0.002 by default), where
\* price_range is the row's own field and high and low are not read for
\* the decision; Medium when that percentage is at most 1%, High above 1%
\* and up to 5%, Critical above 5%.
C7_AlertIffPriceRangeField ==
    last.op = "ohlc" =>
        LET row == last.row
        IN /\ last.ret # <<>> <=>
                (row.open > 0 /\ row.price_range * 1000 > 2 * row.open)
           /\ last.ret # <<>> =>
                /\ LastAlert.alert_type = "PriceSpike"
                /\ LastAlert.severity =
                       IF row.price_range * 100 > 5 * row.open THEN "Critical"
                       ELSE IF row.price_range * 100 > row.open THEN "High"
                       ELSE "Medium"

\* An alert on a row whose high and low coincide.
C7_Witness ==
    /\ last.op = "ohlc" /\ last.ret # <<>>
    /\ last.row.high = last.row.low
    /\ last.row.price_range = 101 /\ LastAlert.severity = "High"
    /\ calls = 2

\* C8: evaluate_match returns an alert exactly when
\* |price_diff| < match_price_diff_threshold; High when |price_diff| < 0.001
\* and Medium otherwise, never Critical for any row or threshold.
C8_MatchIffBelowThreshold ==
    /\ last.op = "match" =>
          /\ last.ret # <<>> <=>
                (/\ last.row.price_diff < match_price_diff_threshold
                 /\ -last.row.price_diff < match_price_diff_threshold)
          /\ last.ret # <<>> =>
                /\ LastAlert.alert_type = "SuspiciousMatch"
                /\ LastAlert.severity =
                       IF /\ last.row.price_diff * 1000 < F64_SCALE
                          /\ -last.row.price_diff * 1000 < F64_SCALE
                       THEN "High" ELSE "Medium"
    /\ \A i \in 1..Len(returned) :
          returned[i].alert_type = "SuspiciousMatch"
              => returned[i].severity # "Critical"

\* A Medium alert under a threshold other than the default.
C8_Witness ==
    /\ last.op = "match" /\ last.ret # <<>>
    /\ match_price_diff_threshold = Milli(5000)
    /\ last.row.price_diff = -Milli(1000)
    /\ LastAlert.severity = "Medium"
    /\ calls = 2

----------------------------------------------------------------------------
\* Claims about ids and the recent-alert buffer

\* C9: across any interleaving of the evaluate operations every returned
\* alert has an id above all earlier ones; ids start at 1 and grow by 1 per
\* alert, an evaluation returning no alert consumes no id, and
\* total_alerts() equals the id of the latest alert (0 when none).
C9_IdsCountAlerts ==
    /\ \A i \in 1..Len(returned) : returned[i].id = i
    /\ next_id = Len(returned)
    /\ last.ret # <<>> => LastAlert = returned[Len(returned)]
    /\ total_alerts =
          IF returned = <<>> THEN 0 ELSE returned[Len(returned)].id

C9_Witness ==
    /\ Len(returned) > ALERTS_CAP
    /\ calls > Len(returned)
    /\ returned[1].alert_type # returned[2].alert_type

\* C10: after k alerts recent_alerts() holds exactly the last min(k, 200)
\* alerts, in creation order, as they were returned; never more than 200,
\* and an insertion at capacity removes only the oldest.
C10_RecentAlertsAreLastTwoHundred ==
    /\ recent_alerts = LastN(returned, ALERTS_CAP)
    /\ Len(recent_alerts) = Min(Len(returned), ALERTS_CAP)
    /\ Len(recent_alerts) <= ALERTS_CAP

C10_Witness ==
    /\ Len(returned) = ALERTS_CAP + 2
    /\ Len(recent_alerts) = ALERTS_CAP
    /\ returned[1].alert_type # "RapidFire"
    /\ recent_alerts[1] = returned[3]

----------------------------------------------------------------------------
\* Claims about the per-type counters and the frame of each operation

\* The number of alerts of one type returned so far.
ReturnedOfType(type) ==
    Cardinality({i \in 1..Len(returned) : returned[i].alert_type = type})

\* C11: over any sequence of evaluations each per-type counter equals the
\* number of alerts of that type ever returned (so it never decreases, a
\* match adds exactly 1 to the counter of the alert's own type and nothing
\* to the other four, and an eviction from the recent buffer changes no
\* counter).
C11_CountersCountReturnedAlerts ==
    /\ DOMAIN counts \subseteq AlertTypes
    /\ \A type \in AlertTypes : GetOr(counts, type, 0) = ReturnedOfType(type)

\* Counters after the buffer has evicted alerts of two different types.
C11_Witness ==
    /\ Len(returned) = ALERTS_CAP + 2
    /\ returned[1].alert_type = "PriceSpike"
    /\ returned[2].alert_type = "WashTrading"
    /\ counts["PriceSpike"] = 1 /\ counts["WashTrading"] = 1
    /\ counts["RapidFire"] = ALERTS_CAP
    /\ Len(alerts) = ALERTS_CAP

\* C12: an evaluate operation that returns no alert leaves the next alert
\* id, the recent-alert buffer and every per-type counter unchanged;
\* evaluate_ohlc, evaluate_rapid_fire, evaluate_wash and evaluate_match then
\* leave the whole engine state unchanged; evaluate_volume, alert or not,
\* changes no rolling history but that of the row's own symbol.
C12_NoAlertFrame ==
    [][calls' = calls + 1 =>
        /\ last'.ret = <<>> => UNCHANGED <<next_id, alerts, counts>>
        /\ (last'.ret = <<>> /\ last'.op # "volume") =>
              UNCHANGED <<engineVars, thresholdVars>>
        /\ last'.op = "volume" =>
              /\ UNCHANGED thresholdVars
              /\ DOMAIN vol_baselines' = DOMAIN vol_baselines \cup {last'.row.symbol}
              /\ \A sym \in DOMAIN vol_baselines :
                    sym # last'.row.symbol =>
                        vol_baselines'[sym] = vol_baselines[sym]]_vars

\* An alert, then a volume row that returns none.
C12_Witness ==
    /\ calls = 2 /\ last.ret = <<>> /\ last.op = "volume"
    /\ Len(returned) = 1 /\ returned[1].alert_type = "PriceSpike"
    /\ next_id = 1 /\ Len(alerts) = 1

----------------------------------------------------------------------------
\* Part 2: evaluate_volume and evaluate_wash over the full i64 range
\*
\* An i64 quantity is written hi * 2^61 + lo and held as the record
\* [hi, lo], with |lo| far below 2^61, so that i64::MAX = 4 * 2^61 - 1,
\* i64::MIN = -4 * 2^61 and the two's-complement modulus 2^64 is 8 units of
\* hi.  Sums, differences and products by small constants are exact in this
\* form.  `+`, `-` and `sum` on i64 panic on overflow when overflow checks
\* are compiled in and wrap otherwise.

Wide(hi, lo) == [hi |-> hi, lo |-> lo]

Narrow(n) == Wide(0, n)

I64_MAX == Wide(4, -1)

I64_MIN == Wide(-4, 0)

WAdd(a, b) == Wide(a.hi + b.hi, a.lo + b.lo)

WSub(a, b) == Wide(a.hi - b.hi, a.lo - b.lo)

WScale(a, c) == Wide(a.hi * c, a.lo * c)

WLess(a, b) == a.hi < b.hi \/ (a.hi = b.hi /\ a.lo < b.lo)

InI64(a) == ~WLess(I64_MAX, a) /\ ~WLess(a, I64_MIN)

\* The wrapped result of one i64 operation whose exact result is a.
Wrap(a) ==
    IF WLess(I64_MAX, a) THEN Wide(a.hi - 8, a.lo)
    ELSE IF WLess(a, I64_MIN) THEN Wide(a.hi + 8, a.lo)
    ELSE a

\* i64::unsigned_abs, a u64
WAbs(a) == IF WLess(a, Narrow(0)) THEN Wide(-a.hi, -a.lo) ELSE a

\* i64 division by a small positive n, truncating toward zero; exact when n
\* divides a.hi, which holds for every history SpecWide reaches.
WTruncDiv(a, n) ==
    IF a.hi = 0 THEN Narrow(TruncDiv(a.lo, n))
    ELSE IF a.hi > 0 THEN Wide(a.hi \div n, a.lo \div n)
    ELSE Wide(-((-a.hi) \div n), -((-a.lo) \div n))

\* The f64 tests `n / d > t` and `n / d < t` for d > 0.
WDivGt(n, d, t) == WLess(WScale(d, t), WScale(n, F64_SCALE))

WDivLt(n, d, t) == WLess(WScale(n, F64_SCALE), WScale(d, t))

\* The mathematical sum of a sequence of i64 values.
RECURSIVE WExactSum(_)
WExactSum(s) == IF s = <<>> THEN Narrow(0) ELSE WAdd(Head(s), WExactSum(Tail(s)))

\* alerts.rs:98  `history.iter().sum::<i64>()`: the additions front to back,
\* each wrapped, and whether any of them left the i64 range.
RECURSIVE WideSum(_, _)
WideSum(s, acc) ==
    IF s = <<>> THEN acc
    ELSE LET exact == WAdd(acc.sum, Head(s))
         IN WideSum(Tail(s), [sum |-> Wrap(exact),
                              overflow |-> acc.overflow \/ ~InI64(exact)])

WideValues == {I64_MAX, I64_MIN, Narrow(1), Narrow(-1), Narrow(100)}

WideVolumeRows == [symbol : {"AAPL"}, total_volume : WideValues]

WideWashRows ==
    [account_id : {"FRAUD-1"}, symbol : {"AAPL"}, buy_volume : WideValues,
     sell_volume : WideValues, buy_count : {2}, sell_count : {2}]

\* An overflowing operation with overflow checks compiled in: the method
\* panics before it has written anything to the engine.
Panic(call) ==
    /\ last' = call @@ [ret |-> <<>>, overflow |-> TRUE, panic |-> TRUE]
    /\ calls' = calls + 1
    /\ UNCHANGED <<engineVars, thresholdVars, returned, passed, outsideEngine>>

\* alerts.rs:109-115
WideVolumeSeverity(total_volume, avg) ==
    IF WDivGt(total_volume, avg, Milli(10000)) THEN "Critical"
    ELSE IF WDivGt(total_volume, avg, Milli(5000)) THEN "High"
    ELSE "Medium"

\* alerts.rs:93-130
EvaluateVolumeWide(row) ==
    LET history == GetOr(vol_baselines, row.symbol, <<>>)
        folded == WideSum(history, [sum |-> Narrow(0), overflow |-> FALSE])
        overflow == history # <<>> /\ folded.overflow
        avg == IF history = <<>> THEN row.total_volume
               ELSE WTruncDiv(folded.sum, Len(history))
        hit == /\ WLess(Narrow(0), avg)
               /\ WDivGt(row.total_volume, avg, volume_ratio_threshold)
        alert == MakeAlert("VolumeAnomaly",
                           WideVolumeSeverity(row.total_volume, avg),
                           <<row.symbol, row.total_volume, avg>>)
        call == [op |-> "volume", row |-> row,
                 fresh |-> row.symbol \notin DOMAIN vol_baselines,
                 history |-> history]
    IN IF overflow /\ overflow_checks
       THEN Panic(call)
       ELSE /\ vol_baselines' =
                 Put(vol_baselines, row.symbol, PushHistory(history, row.total_volume))
            /\ IF hit THEN Raise(alert) ELSE NoRaise
            /\ last' = call @@ [ret |-> IF hit THEN <<alert>> ELSE <<>>,
                                overflow |-> overflow, panic |-> FALSE]
            /\ passed' = Put(passed, row.symbol,
                             Append(GetOr(passed, row.symbol, <<>>), row.total_volume))
            /\ calls' = calls + 1
            /\ UNCHANGED <<thresholdVars, outsideEngine>>

\* alerts.rs:188-194
WideWashSeverity(diff, total) ==
    IF WDivLt(diff, total, Milli(20)) THEN "Critical"
    ELSE IF WDivLt(diff, total, Milli(50)) THEN "High"
    ELSE "Medium"

\* alerts.rs:183-209
EvaluateWashWide(row) ==
    LET exactTotal == WAdd(row.buy_volume, row.sell_volume)
        total == Wrap(exactTotal)
        guard == /\ WLess(Narrow(0), total)
                 /\ row.buy_count >= 2
                 /\ row.sell_count >= 2
        exactDiff == WSub(row.buy_volume, row.sell_volume)
        diff == WAbs(Wrap(exactDiff))
        \* line 184 always runs, line 186 only inside the guard
        overflow == ~InI64(exactTotal) \/ (guard /\ ~InI64(exactDiff))
        hit == guard /\ WDivLt(diff, total, wash_imbalance_threshold)
        alert == MakeAlert("WashTrading", WideWashSeverity(diff, total),
                           <<row.account_id, row.symbol, row.buy_volume, row.sell_volume>>)
        call == [op |-> "wash", row |-> row]
    IN IF overflow /\ overflow_checks
       THEN Panic(call)
       ELSE /\ IF hit THEN Raise(alert) ELSE NoRaise
            /\ last' = call @@ [ret |-> IF hit THEN <<alert>> ELSE <<>>,
                                overflow |-> overflow, panic |-> FALSE]
            /\ calls' = calls + 1
            /\ UNCHANGED <<vol_baselines, thresholdVars, passed, outsideEngine>>

\* Specification SpecWide: a fresh engine fed rows whose i64 fields reach
\* the ends of the i64 range; a panic ends the run.

MaxWideCalls == 2

Panicked == "panic" \in DOMAIN last /\ last.panic

WideVolumeCall ==
    /\ ~Panicked /\ calls < MaxWideCalls
    /\ \E row \in WideVolumeRows : EvaluateVolumeWide(row)

WideWashCall ==
    /\ ~Panicked /\ calls < MaxWideCalls
    /\ \E row \in WideWashRows : EvaluateWashWide(row)

WideOhlcCall ==
    /\ ~Panicked /\ calls < MaxWideCalls
    /\ \E row \in OhlcRows : EvaluateOhlc(row)

NextWide == WideVolumeCall \/ WideWashCall \/ WideOhlcCall

SpecWide == Init /\ [][NextWide]_vars

\* C13 as stated: a zero or negative divisor yields no alert and no error,
\* for every row and every reachable engine state: evaluate_volume when the
\* prior average is <= 0, evaluate_wash when buy_volume + sell_volume <= 0,
\* evaluate_ohlc when open <= 0.
C13_NonPositiveDivisorNoAlertNoError ==
    /\ (last.op = "ohlc" /\ last.row.open <= 0) => last.ret = <<>>
    /\ (/\ last.op = "wash"
        /\ ~WLess(Narrow(0), WAdd(last.row.buy_volume, last.row.sell_volume)))
       => (last.ret = <<>> /\ ~Panicked)
    /\ (/\ last.op = "volume"
        /\ IF last.history = <<>>
           THEN ~WLess(Narrow(0), last.row.total_volume)
           ELSE WLess(WExactSum(last.history), Narrow(Len(last.history))))
       => (last.ret = <<>> /\ ~Panicked)

\* C14 as stated: every evaluate operation completes, with an alert or with
\* none, for rows whose integer fields are arbitrary i64 values: the sum of
\* a volume history, buy_volume + sell_volume and buy_volume - sell_volume
\* never leave the i64 range.
C14_EvaluationsStayInRange ==
    "overflow" \in DOMAIN last => (~last.overflow /\ ~last.panic)

----------------------------------------------------------------------------
\* Part 3: FraudGenerator::generate_cycle
\*
\* A rate drawn from an f64 range is held in units of 1/F64_SCALE, so the
\* half-open range 0.02..0.04 is 200..399.  Multiplying a price by (1 + r)
\* adds the factor <<F64_SCALE + r, F64_SCALE>> to its bag of moves.

\* generator.rs:103  `rng.gen_range(0.02..0.04)`
PushRates == Milli(20) .. (Milli(40) - 1)
\* generator.rs:112  `rng.gen_range(-0.005..0.005)`
WalkRates == (-Milli(5)) .. (Milli(5) - 1)
\* generator.rs:137  `rng.gen_range(-0.002..0.002)`
OrderOffsets == (-Milli(2)) .. (Milli(2) - 1)
\* generator.rs:118  `rng.gen_range(10..500)`
NormalVolumes == 10 .. 499
\* generator.rs:164  `rng.gen_range(5..=10)`
SpikeCounts == 5 .. 10
\* generator.rs:167  `rng.gen_range(10..500) * rng.gen_range(10..50)`
SpikeMultipliers == 10 .. 49
\* generator.rs:172, 201  `rng.gen_range(-0.001..0.001)`
FraudOffsets == (-Milli(1)) .. (Milli(1) - 1)
\* generator.rs:193  `rng.gen_range(20..=30)`
RapidCounts == 20 .. 30
\* generator.rs:196  `rng.gen_range(50..100)`
RapidSpacings == 50 .. 99
\* generator.rs:202  `rng.gen_range(10..100)`
RapidVolumes == 10 .. 99
\* generator.rs:223  `rng.gen_range(3..=6)`
WashPairs == 3 .. 6
\* generator.rs:225  `rng.gen_range(50..200)`
WashPairVolumes == 50 .. 199
\* generator.rs:240  `rng.gen_range(-0.01..0.01)`, an absolute price offset
WashOffsets == (-Milli(10)) .. (Milli(10) - 1)

\* The factor (1 + r) for a rate r.
Rate(r) == <<F64_SCALE + r, F64_SCALE>>

\* generator.rs:108  `*price *= 0.92`
REVERSAL == <<92, 100>>

\* Faulty variant of ApplyMove: the price restarts from its base value.
ApplyMove_FromBase(price, factor) ==
    [price EXCEPT !.moves = SetToBag({factor})]

\* `*price += *price * r` and `*price *= f`: one more factor on the price.
ApplyMove(price, factor) ==
    [price EXCEPT !.moves = @ (+) SetToBag({factor})]

\* A quoted price: a tracked price plus a relative offset (a rate) and an
\* absolute offset (in units of 1/F64_SCALE).
Quote(price, rel, abs) == [of |-> price, rel |-> rel, abs |-> abs]

\* types.rs:5-15
Trade(account, symbol, side, price, volume, seq, ts) ==
    [account_id |-> account, symbol |-> symbol, side |-> side, price |-> price,
     volume |-> volume, order_ref |-> <<"T", seq>>, ts |-> ts]

\* Faulty variant of Order: the quantity is not the trade's volume.
Order_OtherQuantity(seq, account, symbol, side, quantity, price, ts) ==
    [order_id |-> <<"ORD", seq>>, account_id |-> account, symbol |-> symbol,
     side |-> side, quantity |-> quantity + 1, price |-> price, ts |-> ts]

\* types.rs:17-27
Order(seq, account, symbol, side, quantity, price, ts) ==
    [order_id |-> <<"ORD", seq>>, account_id |-> account, symbol |-> symbol,
     side |-> side, quantity |-> quantity, price |-> price, ts |-> ts]

\* generator.rs:115, 163, 199  `if rng.gen_bool(0.5) { "buy" } else { "sell" }`
Side(buy) == IF buy THEN "buy" ELSE "sell"

\* The generator's fields as one value.
Gen ==
    [prices |-> prices, order_seq |-> order_seq, trade_seq |-> trade_seq,
     manipulation_remaining |-> manipulation_remaining,
     manipulation_symbol |-> manipulation_symbol]

\* Faulty variant of ArmedFor: the target symbol is not compared.
ArmedFor_AnySymbol(g, sym) == g.manipulation_remaining > 0

\* generator.rs:100-101
ArmedFor(g, sym) ==
    g.manipulation_remaining > 0 /\ g.manipulation_symbol = <<sym>>

\* Faulty variant of PushedPrice: the reversal replaces the third push.
PushedPrice_ReversalOnly(price, push, remaining) ==
    IF remaining = 0 THEN ApplyMove(price, REVERSAL)
    ELSE ApplyMove(price, Rate(push))

\* generator.rs:103-109  the armed branch, `remaining` already decremented
PushedPrice(price, push, remaining) ==
    IF remaining = 0 THEN ApplyMove(ApplyMove(price, Rate(push)), REVERSAL)
    ELSE ApplyMove(price, Rate(push))

\* generator.rs:95-147  one iteration of the loop of generate_normal, for
\* symbol sym with the draws d; acc is [gen, trades, orders] so far.
NormalStep(acc, sym, ts, d) ==
    LET g == acc.gen
        armed == ArmedFor(g, sym)
        remaining == IF armed THEN g.manipulation_remaining - 1
                     ELSE g.manipulation_remaining
        price == IF armed THEN PushedPrice(g.prices[sym], d.push, remaining)
                 ELSE ApplyMove(g.prices[sym], Rate(d.walk))
        target == IF armed /\ remaining = 0 THEN <<>> ELSE g.manipulation_symbol
        account == NORMAL_ACCOUNTS[d.account]
        trade == Trade(account, sym, Side(d.buy), Quote(price, 0, 0), d.volume,
                       g.trade_seq + 1, ts)
        order == Order(g.order_seq + 1, account, sym, Side(d.buy), d.volume,
                       Quote(price, d.offset, 0), ts)
    IN [gen |-> [prices |-> [g.prices EXCEPT ![sym] = price],
                 order_seq |-> IF d.order THEN g.order_seq + 1 ELSE g.order_seq,
                 trade_seq |-> g.trade_seq + 1,
                 manipulation_remaining |-> remaining,
                 manipulation_symbol |-> target],
        trades |-> Append(acc.trades, trade),
        orders |-> IF d.order THEN Append(acc.orders, order) ELSE acc.orders]

RECURSIVE NormalLoop(_, _, _, _)
NormalLoop(acc, i, ts, normal) ==
    IF i > Len(SYMBOLS) THEN acc
    ELSE NormalLoop(NormalStep(acc, SYMBOLS[i][1], ts, normal[SYMBOLS[i][1]]),
                    i + 1, ts, normal)

\* generator.rs:90-150  generate_normal: [gen, trades, orders]
GenerateNormal(g, ts, normal) ==
    NormalLoop([gen |-> g, trades |-> <<>>, orders |-> <<>>], 1, ts, normal)

\* Faulty variant of ThenNormal: the normal cycle comes first.
ThenNormal_NormalFirst(g, fraud, ts, normal) ==
    LET n == GenerateNormal([g EXCEPT !.trade_seq = @ + Len(fraud)], ts, normal)
    IN [n EXCEPT !.trades = @ \o fraud]

\* Faulty variant of ThenNormal: the normal cycle numbers its trades from
\* the counter as it was before the injection.
ThenNormal_SeqNotAdvanced(g, fraud, ts, normal) ==
    LET n == GenerateNormal(g, ts, normal)
    IN [n EXCEPT !.trades = fraud \o @]

\* The tail shared by the three inject_* methods (generator.rs:177-180,
\* 207-210, 247-250): the fraud trades, then a normal cycle appended.
ThenNormal(g, fraud, ts, normal) ==
    LET n == GenerateNormal([g EXCEPT !.trade_seq = @ + Len(fraud)], ts, normal)
    IN [n EXCEPT !.trades = fraud \o @]

\* generator.rs:152-181  inject_volume_spike
InjectVolumeSpike(g, ts, draw) ==
    LET sym == SYMBOLS[draw.idx][1]
        fraud == [i \in 1..draw.count |->
                    Trade(FRAUD_ACCOUNTS[draw.acct], sym, Side(draw.fraud[i].buy),
                          Quote(g.prices[sym], draw.fraud[i].offset, 0),
                          draw.fraud[i].volume * draw.fraud[i].mult,
                          g.trade_seq + i, ts)]
    IN ThenNormal(g, fraud, ts, draw.normal)

\* generator.rs:196  `ts + (i as i64) * rng.gen_range(50..100)`, i from 0
RapidTs(ts, i, spacing) == ts + i * spacing

\* generator.rs:183-211  inject_rapid_fire
InjectRapidFire(g, ts, draw) ==
    LET sym == SYMBOLS[draw.idx][1]
        fraud == [i \in 1..draw.count |->
                    Trade(FRAUD_ACCOUNTS[draw.acct], sym, Side(draw.fraud[i].buy),
                          Quote(g.prices[sym], draw.fraud[i].offset, 0),
                          draw.fraud[i].volume, g.trade_seq + i,
                          RapidTs(ts, i - 1, draw.fraud[i].spacing))]
    IN ThenNormal(g, fraud, ts, draw.normal)

\* Faulty variant of WashSellVolume: the sell leg is one unit larger.
WashSellVolume_OneMore(d) == d.volume + 1

\* generator.rs:225, 242  `volume: vol` on both legs of a pair
WashSellVolume(d) == d.volume

\* generator.rs:213-251  inject_wash_trading
InjectWashTrading(g, ts, draw) ==
    LET sym == SYMBOLS[draw.idx][1]
        acct == FRAUD_ACCOUNTS[draw.acct]
        leg(j) ==
            LET d == draw.fraud[(j + 1) \div 2]
            IN IF j % 2 = 1
               THEN Trade(acct, sym, "buy", Quote(g.prices[sym], 0, 0),
                          d.volume, g.trade_seq + j, ts)
               ELSE Trade(acct, sym, "sell", Quote(g.prices[sym], 0, d.offset),
                          WashSellVolume(d), g.trade_seq + j, ts)
        fraud == [j \in 1..(2 * draw.count) |-> leg(j)]
    IN ThenNormal(g, fraud, ts, draw.normal)

\* generator.rs:76-80  the Price Manipulation arm of generate_cycle
ArmArc(g, idx) ==
    [g EXCEPT !.manipulation_remaining = 3,
              !.manipulation_symbol = <<SYMBOLS[idx][1]>>]

\* rand's Rng::gen_bool(p) panics unless 0 <= p <= 1.
GenBoolPanics(p) == p < 0 \/ p > F64_SCALE

\* Faulty variant of GenBool: the outcome never depends on p.
GenBool_IgnoresP(p, coin) == coin

\* Rng::gen_bool(p): never true for p = 0, always true for p = 1, else
\* either (coin).
GenBool(p, coin) ==
    IF p <= 0 THEN FALSE ELSE IF p >= F64_SCALE THEN TRUE ELSE coin

\* generator.rs:70  `self.fraud_rate.min(1.0)`
InjectProbability(rate) == IF rate > F64_SCALE THEN F64_SCALE ELSE rate

\* generator.rs:72-85  the outcome of generate_cycle once fraud is injected
Injected(g, ts, draw) ==
    LET scenario == ALL_SCENARIOS[draw.scenario]
    IN CASE scenario = "VolumeSpike" -> InjectVolumeSpike(g, ts, draw)
         [] scenario = "PriceManipulation" ->
                GenerateNormal(ArmArc(g, draw.idx), ts, draw.normal)
         [] scenario = "RapidFire" -> InjectRapidFire(g, ts, draw)
         [] scenario = "WashTrading" -> InjectWashTrading(g, ts, draw)

\* The draws a call can make: every value inside the range the code draws
\* it from, with one entry of `fraud` per injected trade (per pair for Wash
\* Trading).
LegalDraw(draw) ==
    /\ draw.coin \in BOOLEAN
    /\ draw.scenario \in DOMAIN ALL_SCENARIOS
    /\ draw.idx \in DOMAIN SYMBOLS
    /\ draw.acct \in DOMAIN FRAUD_ACCOUNTS
    /\ DOMAIN draw.normal = SymbolNames
    /\ \A sym \in SymbolNames :
          LET d == draw.normal[sym]
          IN /\ d.walk \in WalkRates /\ d.push \in PushRates
             /\ d.account \in DOMAIN NORMAL_ACCOUNTS /\ d.buy \in BOOLEAN
             /\ d.volume \in NormalVolumes /\ d.order \in BOOLEAN
             /\ d.offset \in OrderOffsets
    /\ DOMAIN draw.fraud = 1..draw.count
    /\ CASE ALL_SCENARIOS[draw.scenario] = "VolumeSpike" ->
              /\ draw.count \in SpikeCounts
              /\ \A i \in 1..draw.count :
                    /\ draw.fraud[i].volume \in NormalVolumes
                    /\ draw.fraud[i].mult \in SpikeMultipliers
                    /\ draw.fraud[i].offset \in FraudOffsets
                    /\ draw.fraud[i].buy \in BOOLEAN
         [] ALL_SCENARIOS[draw.scenario] = "RapidFire" ->
              /\ draw.count \in RapidCounts
              /\ \A i \in 1..draw.count :
                    /\ draw.fraud[i].volume \in RapidVolumes
                    /\ draw.fraud[i].offset \in FraudOffsets
                    /\ draw.fraud[i].buy \in BOOLEAN
                    /\ draw.fraud[i].spacing \in RapidSpacings
         [] ALL_SCENARIOS[draw.scenario] = "WashTrading" ->
              /\ draw.count \in WashPairs
              /\ \A i \in 1..draw.count :
                    /\ draw.fraud[i].volume \in WashPairVolumes
                    /\ draw.fraud[i].offset \in WashOffsets
         [] OTHER -> draw.count = 0

\* generator.rs:66-88  what generate_cycle(ts) with the draws `draw` does to
\* the generator
GenerateCycleStep(ts, draw) ==
    LET p == InjectProbability(fraud_rate)
        inject == GenBool(p, draw.coin)
        out == IF inject THEN Injected(Gen, ts, draw)
               ELSE GenerateNormal(Gen, ts, draw.normal)
        arming == inject /\ ALL_SCENARIOS[draw.scenario] = "PriceManipulation"
        call == [ts |-> ts, rate |-> fraud_rate, before |-> Gen]
        \* calls since the latest one that armed the arc (0: this call; -1:
        \* never armed), and the symbol it armed
        history ==
            [armed_ago |-> IF arming THEN 0
                           ELSE IF cycle.armed_ago < 0 THEN -1
                           ELSE cycle.armed_ago + 1,
             armed_for |-> IF arming THEN <<SYMBOLS[draw.idx][1]>>
                           ELSE cycle.armed_for,
             \* trades and orders returned by all calls so far
             total_trades |-> cycle.total_trades + Len(out.trades),
             total_orders |-> cycle.total_orders + Len(out.orders)]
    IN /\ LegalDraw(draw)
       /\ IF GenBoolPanics(p)
          THEN /\ cycle' = call @@ [outcome |-> "panicked", scenario |-> "none",
                                    trades |-> <<>>, orders |-> <<>>,
                                    armed_ago |-> cycle.armed_ago,
                                    armed_for |-> cycle.armed_for,
                                    total_trades |-> cycle.total_trades,
                                    total_orders |-> cycle.total_orders]
               /\ UNCHANGED genVars
          ELSE /\ prices' = out.gen.prices
               /\ order_seq' = out.gen.order_seq
               /\ trade_seq' = out.gen.trade_seq
               /\ manipulation_remaining' = out.gen.manipulation_remaining
               /\ manipulation_symbol' = out.gen.manipulation_symbol
               /\ fraud_rate' = fraud_rate
               /\ cycle' = call @@ history @@
                      [outcome |-> "returned",
                       scenario |-> IF inject THEN ALL_SCENARIOS[draw.scenario]
                                    ELSE "none",
                       trades |-> out.trades, orders |-> out.orders]
       /\ cycles' = cycles + 1

\* generator.rs:66-88  generate_cycle(ts) with the draws `draw`, called on its
\* own
GenerateCycle(ts, draw) ==
    GenerateCycleStep(ts, draw) /\ UNCHANGED outsideGenerator

----------------------------------------------------------------------------
\* Draws used by the generator specifications

NormalDraw(walk, push, account, buy, volume, order, offset) ==
    [walk |-> walk, push |-> push, account |-> account, buy |-> buy,
     volume |-> volume, order |-> order, offset |-> offset]

\* The least and the greatest value of every range, without and with an order.
LowDraw == NormalDraw(-Milli(5), Milli(20), 1, TRUE, 10, FALSE, -Milli(2))

HighDraw == NormalDraw(Milli(5) - 1, Milli(40) - 1, 5, FALSE, 499, TRUE, Milli(2) - 1)

\* Every symbol draws d.
Uniform(d) == [sym \in SymbolNames |-> d]

\* Symbol s draws d, every other symbol b.
OneOff(s, d, b) == [sym \in SymbolNames |-> IF sym = s THEN d ELSE b]

MixedNormalDraws ==
    {Uniform(LowDraw), Uniform(HighDraw)}
    \cup {OneOff(s, HighDraw, LowDraw) : s \in SymbolNames}

\* The per-trade draws of an injection: `count` trades (pairs), all drawing d.
Repeated(count, d) == [count |-> count, fraud |-> [i \in 1..count |-> d]]

NoFraudDraws == [count |-> 0, fraud |-> <<>>]

\* One small injection per scenario, indexed as ALL_SCENARIOS.
SmallInjection ==
    <<Repeated(5, [volume |-> 10, mult |-> 10, offset |-> 0, buy |-> TRUE]),
      NoFraudDraws,
      Repeated(20, [volume |-> 10, offset |-> 0, buy |-> TRUE, spacing |-> 50]),
      Repeated(3, [volume |-> 50, offset |-> 0])>>

Draw(coin, scenario, idx, acct, injection, normal) ==
    [coin |-> coin, scenario |-> scenario, idx |-> idx, acct |-> acct,
     count |-> injection.count, fraud |-> injection.fraud, normal |-> normal]

\* main.rs:66, 160  the anchor of the n-th cycle: a clock read every 200 ms
CycleTs(n) == 1000 + 200 * n

GenPanicked == cycle.outcome = "panicked"

\* The engine of the run, which no generator method reads or writes; the
\* generator has no integer arithmetic that depends on the build profile.
EngineIdle ==
    /\ EngineNew /\ DefaultThresholds /\ NoCallsYet
    /\ overflow_checks = FALSE
    /\ TrackerIdle
    /\ DefaultRun

----------------------------------------------------------------------------
\* Specification SpecRate: generators constructed with fraud rates inside
\* and outside [0, 1].

MaxRateCycles == 2

FraudRates == {-Milli(500), 0, Milli(500), Milli(1000), Milli(1500)}

RateDraws ==
    {Draw(coin, scenario, 3, 2, SmallInjection[scenario], normal) :
        coin \in BOOLEAN, scenario \in DOMAIN ALL_SCENARIOS,
        normal \in MixedNormalDraws}

InitRate ==
    /\ EngineIdle
    /\ \E rate \in FraudRates : GenNew(rate)
    /\ NoCyclesYet

RateCycle ==
    /\ ~GenPanicked /\ cycles < MaxRateCycles
    /\ \E draw \in RateDraws : GenerateCycle(CycleTs(cycles), draw)

NextRate == RateCycle

SpecRate == InitRate /\ [][NextRate]_vars

IsNormalAccount(a) == \E i \in DOMAIN NORMAL_ACCOUNTS : NORMAL_ACCOUNTS[i] = a

IsFraudAccount(a) == \E i \in DOMAIN FRAUD_ACCOUNTS : FRAUD_ACCOUNTS[i] = a

\* C15: with fraud rate 0.0 every generate_cycle call, however many calls
\* came before, emits exactly one trade per known symbol, every trade and
\* order carries a normal account id and none a fraud account id, and the
\* manipulation arc is never armed.
C15_ZeroRateOnlyNormalCycles ==
    (fraud_rate = 0 /\ cycles > 0) =>
        /\ cycle.outcome = "returned"
        /\ Len(cycle.trades) = Len(SYMBOLS)
        /\ \A sym \in SymbolNames :
              Cardinality({i \in DOMAIN cycle.trades :
                              cycle.trades[i].symbol = sym}) = 1
        /\ \A i \in DOMAIN cycle.trades :
              /\ IsNormalAccount(cycle.trades[i].account_id)
              /\ ~IsFraudAccount(cycle.trades[i].account_id)
        /\ \A i \in DOMAIN cycle.orders :
              /\ IsNormalAccount(cycle.orders[i].account_id)
              /\ ~IsFraudAccount(cycle.orders[i].account_id)
        /\ manipulation_remaining = 0
        /\ manipulation_symbol = <<>>

\* The second consecutive call at rate 0, with an order for every symbol.
C15_Witness ==
    /\ fraud_rate = 0 /\ cycles = 2 /\ cycle.outcome = "returned"
    /\ Len(cycle.orders) = Len(SYMBOLS)
    /\ trade_seq = 2 * Len(SYMBOLS)

\* C16 as stated: a fraud rate outside [0, 1] is clamped at the point of
\* use: with a rate above 1 generate_cycle behaves as with rate 1 (fraud is
\* always injected), with a rate below 0 as with rate 0 (never injected),
\* and in both cases the call completes and returns a cycle.
C16_RateClampedAtUse ==
    cycles > 0 =>
        /\ cycle.rate > F64_SCALE =>
              (cycle.outcome = "returned" /\ cycle.scenario # "none")
        /\ cycle.rate < 0 =>
              (cycle.outcome = "returned" /\ cycle.scenario = "none")

----------------------------------------------------------------------------
\* Specification SpecArc: a generator with the default fraud rate whose
\* injections are Price Manipulation on one of two symbols or a small Wash
\* Trading burst, with every rate drawn at an end of its range.

MaxArcCycles == 4

ArcDraws ==
    {Draw(coin, scenario, idx, 1, SmallInjection[scenario], Uniform(d)) :
        coin \in BOOLEAN, scenario \in {2, 4}, idx \in {1, 3},
        d \in {LowDraw, HighDraw}}

InitArc == EngineIdle /\ GenNew(DEFAULT_FRAUD_RATE) /\ NoCyclesYet

ArcCycle ==
    /\ cycles < MaxArcCycles
    /\ \E draw \in ArcDraws : GenerateCycle(CycleTs(cycles), draw)

NextArc == ArcCycle

SpecArc == InitArc /\ [][NextArc]_vars

\* The product of a bag of factors, as <<numerator, denominator>>.
RECURSIVE BagProduct(_)
BagProduct(b) ==
    IF BagToSet(b) = {} THEN <<1, 1>>
    ELSE LET f == CHOOSE x \in BagToSet(b) : TRUE
             rest == BagProduct(b (-) SetToBag({f}))
         IN <<f[1] * rest[1], f[2] * rest[2]>>

\* New price over old price of a symbol across the latest call.
PassRatio(sym) ==
    BagProduct(prices[sym].moves (-) cycle.before.prices[sym].moves)

\* a/b <= ratio, ratio < a/b, ratio <= a/b
AtLeast(ratio, a, b) == a * ratio[2] <= ratio[1] * b

Below(ratio, a, b) == ratio[1] * b < a * ratio[2]

AtMost(ratio, a, b) == ratio[1] * b <= a * ratio[2]

\* The price moved by at most 0.5% up or down.
WalkOnly(sym) ==
    AtLeast(PassRatio(sym), 199, 200) /\ AtMost(PassRatio(sym), 201, 200)

\* The price rose by 2% to 4%.
Pushed(sym) ==
    AtLeast(PassRatio(sym), 51, 50) /\ AtMost(PassRatio(sym), 26, 25)

\* The arc as the normal-cycle pass of the latest call found it.
PassStart ==
    IF cycle.scenario = "PriceManipulation"
    THEN [remaining |-> 3, symbol |-> cycle.armed_for]
    ELSE [remaining |-> cycle.before.manipulation_remaining,
          symbol |-> cycle.before.manipulation_symbol]

\* C17 as stated: after the arc is armed with 3 remaining cycles for X and
\* not re-armed, the first two normal-cycle passes each raise X's price by
\* 2-4% of its value before the pass, the third lowers it by at least 8% of
\* its value before the pass, and after the third the arc is disarmed, so
\* every later pass moves X by at most 0.5% up or down.
C17_ThirdPassDropsEightPercent ==
    cycle.outcome = "returned" =>
        /\ PassStart.remaining \in {2, 3} => Pushed(PassStart.symbol[1])
        /\ PassStart.remaining = 1 =>
              /\ AtMost(PassRatio(PassStart.symbol[1]), 23, 25)
              /\ manipulation_remaining = 0 /\ manipulation_symbol = <<>>
        /\ PassStart.remaining = 0 => \A sym \in SymbolNames : WalkOnly(sym)

\* C17 amended: after the arc is armed with 3 remaining cycles for X and
\* not re-armed, each of the first two normal-cycle passes raises X's price
\* by 2-4% of its value before the pass; the third raises it by 2-4% and
\* then multiplies it by 0.92, so it ends between 4.32% and 6.16% below its
\* value before the pass (8% below the pushed value); after the third the
\* arc is disarmed and every later pass moves X by at most 0.5% up or down.
C17_ThirdPassPushThenReversal ==
    cycle.outcome = "returned" =>
        /\ PassStart.remaining \in {2, 3} =>
              /\ Pushed(PassStart.symbol[1])
              /\ manipulation_remaining = PassStart.remaining - 1
              /\ manipulation_symbol = PassStart.symbol
        /\ PassStart.remaining = 1 =>
              /\ AtLeast(PassRatio(PassStart.symbol[1]), 1173, 1250)
              /\ Below(PassRatio(PassStart.symbol[1]), 598, 625)
              /\ manipulation_remaining = 0 /\ manipulation_symbol = <<>>
        /\ PassStart.remaining = 0 =>
              /\ \A sym \in SymbolNames : WalkOnly(sym)
              /\ manipulation_remaining = 0 /\ manipulation_symbol = <<>>

\* The pass after a completed arc: armed three calls ago, not re-armed.
C17_Witness ==
    /\ cycles = 4 /\ cycle.armed_ago = 3 /\ cycle.armed_for = <<"MSFT">>
    /\ PassStart.remaining = 0
    /\ BagCardinality(prices["MSFT"].moves) = 5
    /\ CopiesIn(REVERSAL, prices["MSFT"].moves) = 1

NoFraudTrades ==
    \A i \in DOMAIN cycle.trades : ~IsFraudAccount(cycle.trades[i].account_id)

OneTradePerSymbol ==
    /\ Len(cycle.trades) = Len(SYMBOLS)
    /\ \A sym \in SymbolNames :
          \E i \in DOMAIN cycle.trades : cycle.trades[i].symbol = sym

OthersWalkOnly ==
    \A sym \in SymbolNames : <<sym>> # PassStart.symbol => WalkOnly(sym)

----------------------------------------------------------------------------
\* Specification SpecInject: a generator with the default fraud rate and
\* injections of every scenario, with the counts and the per-trade draws at
\* the ends of their ranges.

MaxInjectCycles == 2

\* The per-trade draws of an injection: d1 for the trades before the k-th,
\* d2 from the k-th on.
Switched(count, k, d1, d2) ==
    [count |-> count, fraud |-> [i \in 1..count |-> IF i < k THEN d1 ELSE d2]]

Patterns(count, low, high) ==
    {Repeated(count, low), Repeated(count, high),
     Switched(count, 3, high, low), Switched(count, 3, low, high),
     Switched(count, count, high, low)}

SpikeLow == [volume |-> 10, mult |-> 10, offset |-> -Milli(1), buy |-> TRUE]

SpikeHigh == [volume |-> 499, mult |-> 49, offset |-> Milli(1) - 1, buy |-> FALSE]

RapidLow == [volume |-> 10, offset |-> -Milli(1), buy |-> TRUE, spacing |-> 50]

RapidHigh == [volume |-> 99, offset |-> Milli(1) - 1, buy |-> FALSE, spacing |-> 99]

WashLow == [volume |-> 50, offset |-> -Milli(10)]

WashHigh == [volume |-> 199, offset |-> Milli(10) - 1]

\* The injections drawn for a scenario (indexed as ALL_SCENARIOS).
Injections(scenario) ==
    CASE scenario = 1 -> UNION {Patterns(n, SpikeLow, SpikeHigh) : n \in {5, 10}}
      [] scenario = 2 -> {NoFraudDraws}
      [] scenario = 3 -> UNION {Patterns(n, RapidLow, RapidHigh) : n \in {20, 30}}
      [] scenario = 4 -> UNION {Patterns(n, WashLow, WashHigh) : n \in {3, 6}}

\* The first symbol and fraud account with the low normal draws, or the
\* last ones with the high normal draws.
Picks == {<<1, 1, LowDraw>>, <<Len(SYMBOLS), Len(FRAUD_ACCOUNTS), HighDraw>>}

InjectDraws ==
    UNION {{Draw(TRUE, scenario, pick[1], pick[2], injection, Uniform(pick[3])) :
                pick \in Picks, injection \in Injections(scenario)} :
            scenario \in DOMAIN ALL_SCENARIOS}
    \cup {Draw(FALSE, 2, pick[1], pick[2], NoFraudDraws, Uniform(pick[3])) :
            pick \in Picks}

InitInject == EngineIdle /\ GenNew(DEFAULT_FRAUD_RATE) /\ NoCyclesYet

InjectCycle ==
    /\ cycles < MaxInjectCycles
    /\ \E draw \in InjectDraws : GenerateCycle(CycleTs(cycles), draw)

NextInject == InjectCycle

SpecInject == InitInject /\ [][NextInject]_vars

\* The trades of the latest call before its closing normal cycle, and that
\* normal cycle.
FraudPart == SubSeq(cycle.trades, 1, Len(cycle.trades) - Len(SYMBOLS))

NormalPart ==
    SubSeq(cycle.trades, Len(cycle.trades) - Len(SYMBOLS) + 1, Len(cycle.trades))

\* A normal cycle: one normal-account trade per symbol, in the order of
\* SYMBOLS, stamped with the anchor.
IsNormalCycle(trades) ==
    /\ Len(trades) = Len(SYMBOLS)
    /\ \A i \in DOMAIN trades :
          /\ trades[i].symbol = SYMBOLS[i][1]
          /\ IsNormalAccount(trades[i].account_id)
          /\ trades[i].ts = cycle.ts

\* All from one fraud account, on one symbol.
OneFraudAccountOneSymbol(trades) ==
    /\ \A i \in DOMAIN trades : IsFraudAccount(trades[i].account_id)
    /\ \A i, j \in DOMAIN trades :
          /\ trades[i].account_id = trades[j].account_id
          /\ trades[i].symbol = trades[j].symbol

\* C19 as stated: a Rapid-Fire injection emits 20 to 30 fraud trades, all
\* from one fraud account on one symbol, each with a timestamp at or after
\* the cycle anchor, and every two consecutive fraud trades (in emission
\* order) are between 50 and 100 ms apart; the fraud trades are followed by
\* a normal cycle.
C19_RapidFireSpacedFiftyToHundred ==
    cycle.scenario = "RapidFire" =>
        /\ Len(FraudPart) \in 20..30
        /\ OneFraudAccountOneSymbol(FraudPart)
        /\ \A i \in DOMAIN FraudPart : FraudPart[i].ts >= cycle.ts
        /\ \A i \in 1..(Len(FraudPart) - 1) :
              FraudPart[i + 1].ts - FraudPart[i].ts \in 50..100
        /\ IsNormalCycle(NormalPart)

SumVolume(trades, side) ==
    SumSeq([i \in DOMAIN trades |->
                IF trades[i].side = side THEN trades[i].volume ELSE 0])

CountSide(trades, side) ==
    Cardinality({i \in DOMAIN trades : trades[i].side = side})

\* C20: a Wash Trading injection emits 3 to 6 buy/sell pairs, all from one
\* fraud account on one symbol at the cycle anchor timestamp; the buy and
\* the sell of each pair have the same volume, so over the injected trades
\* buy count = sell count >= 3 and total buy volume = total sell volume.
C20_WashPairsBalance ==
    cycle.scenario = "WashTrading" =>
        /\ Len(FraudPart) % 2 = 0
        /\ Len(FraudPart) \div 2 \in 3..6
        /\ OneFraudAccountOneSymbol(FraudPart)
        /\ \A i \in DOMAIN FraudPart : FraudPart[i].ts = cycle.ts
        /\ \A j \in 1..(Len(FraudPart) \div 2) :
              /\ FraudPart[2 * j - 1].side = "buy"
              /\ FraudPart[2 * j].side = "sell"
              /\ FraudPart[2 * j - 1].volume = FraudPart[2 * j].volume
        /\ CountSide(FraudPart, "buy") = CountSide(FraudPart, "sell")
        /\ CountSide(FraudPart, "buy") >= 3
        /\ SumVolume(FraudPart, "buy") = SumVolume(FraudPart, "sell")
        /\ IsNormalCycle(NormalPart)

\* Six pairs of differing volumes, injected in the second call.
C20_Witness ==
    /\ cycle.scenario = "WashTrading" /\ cycles = 2
    /\ Len(FraudPart) = 12
    /\ FraudPart[1].volume # FraudPart[12].volume
    /\ FraudPart[1].account_id = "FRAUD-03" /\ FraudPart[1].symbol = "TSLA"
    /\ FraudPart[1].order_ref # <<"T", 1>>

\* The moves the latest call added to the price of sym.
AddedMoves(sym) == prices[sym].moves (-) cycle.before.prices[sym].moves

\* What a normal-cycle pass alone adds to the price of sym: the walk or the
\* push, and the reversal after the last push.
OnePassOnly(sym) ==
    BagCardinality(AddedMoves(sym)) =
        IF PassStart.remaining = 1 /\ PassStart.symbol = <<sym>> THEN 2 ELSE 1

MatchedTrades(k) ==
    {i \in DOMAIN cycle.trades :
        /\ cycle.trades[i].account_id = cycle.orders[k].account_id
        /\ cycle.trades[i].symbol = cycle.orders[k].symbol
        /\ cycle.trades[i].side = cycle.orders[k].side
        /\ cycle.trades[i].ts = cycle.orders[k].ts
        /\ cycle.trades[i].volume = cycle.orders[k].quantity}

\* C22: every order returned by a cycle matches exactly one trade of the
\* same cycle in account, symbol, side, timestamp and quantity = volume, and
\* that trade is a normal one; a cycle returns at most one order per symbol
\* and none for a fraud-account trade.
C22_OrdersMatchNormalTrades ==
    cycles > 0 =>
        /\ Len(cycle.orders) <= Len(SYMBOLS)
        /\ \A k \in DOMAIN cycle.orders :
              /\ Cardinality(MatchedTrades(k)) = 1
              /\ \A i \in MatchedTrades(k) : i > Len(FraudPart)
              /\ IsNormalAccount(cycle.orders[k].account_id)
              /\ ~IsFraudAccount(cycle.orders[k].account_id)
        /\ \A k, l \in DOMAIN cycle.orders :
              cycle.orders[k].symbol = cycle.orders[l].symbol => k = l

\* An order for every symbol in a call that injected thirty fraud trades.
C22_Witness ==
    /\ cycles = 2 /\ cycle.scenario = "RapidFire" /\ Len(FraudPart) = 30
    /\ Len(cycle.orders) = Len(SYMBOLS)
    /\ cycle.orders[1].quantity = 499

\* C23: over any sequence of generate_cycle calls the trade and the order
\* counter never decrease, the trade counter is the number of trades
\* emitted so far and the order counter the number of orders, and the
\* trades (orders) of a call carry the counter values that follow those of
\* all earlier calls, one each, so no order_ref or order_id is used twice.
C23_CountersNumberEveryTradeAndOrder ==
    cycles > 0 =>
        /\ trade_seq >= cycle.before.trade_seq
        /\ order_seq >= cycle.before.order_seq
        /\ trade_seq = cycle.total_trades
        /\ order_seq = cycle.total_orders
        /\ \A i \in DOMAIN cycle.trades :
              cycle.trades[i].order_ref = <<"T", cycle.before.trade_seq + i>>
        /\ \A k \in DOMAIN cycle.orders :
              cycle.orders[k].order_id = <<"ORD", cycle.before.order_seq + k>>

\* A Wash Trading call after a Volume Spike call, both with orders.
C23_Witness ==
    /\ cycles = 2 /\ cycle.scenario = "WashTrading"
    /\ cycle.before.trade_seq = 10 + Len(SYMBOLS)
    /\ cycle.before.order_seq = Len(SYMBOLS)
    /\ trade_seq = 10 + 12 + 2 * Len(SYMBOLS)
    /\ order_seq = 2 * Len(SYMBOLS)

\* C24: after any sequence of generate_cycle calls the tracked price of
\* every known symbol is strictly positive (its base value and every factor
\* applied to it are), the price map holds exactly the symbols of
\* construction, and each call changes a price only by the moves of one
\* normal-cycle pass on top of those already made (no price returns to its
\* base value).
C24_PricesPositiveAndNeverReset ==
    /\ DOMAIN prices = SymbolNames
    /\ \A sym \in SymbolNames :
          /\ prices[sym].base = BaseOf(sym)
          /\ prices[sym].base > 0
          /\ \A f \in BagToSet(prices[sym].moves) : f[1] > 0 /\ f[2] > 0
          /\ BagCardinality(prices[sym].moves) >= cycles
          /\ cycles > 0 =>
                /\ cycle.before.prices[sym].moves \sqsubseteq prices[sym].moves
                /\ OnePassOnly(sym)

\* Four calls, among them a completed arc and a Wash Trading injection.
C24_Witness ==
    /\ cycles = 4 /\ cycle.scenario = "WashTrading"
    /\ CopiesIn(REVERSAL, prices["AAPL"].moves) = 1
    /\ BagCardinality(prices["AAPL"].moves) = 5
    /\ BagCardinality(prices["TSLA"].moves) = 4

----------------------------------------------------------------------------
\* Part 4: LatencyTracker

\* Faulty variant of PushCapped: a full window gives up its newest sample.
PushCapped_EvictsNewest(q, val) ==
    Append(IF Len(q) >= WINDOW_SIZE THEN SubSeq(q, 1, Len(q) - 1) ELSE q, val)

\* latency.rs:83-88  push_capped
PushCapped(q, val) ==
    Append(IF Len(q) >= WINDOW_SIZE THEN Tail(q) ELSE q, val)

\* `instant.elapsed().as_micros() as u64` with the clock reading t; the
\* u128 -> u64 cast truncates only after 2^64 microseconds.
ElapsedMicros(instant, t) == t - instant

\* latency.rs:18-22  LatencyStats::default()
DEFAULT_STATS ==
    [p50_us |-> 0, p95_us |-> 0, p99_us |-> 0, min_us |-> 0, max_us |-> 0,
     count |-> 0]

\* u64 `<`, the order sort_unstable sorts by.
SampleLess(a, b) == a < b

\* latency.rs:94-95  `sorted.sort_unstable()`: the samples in ascending
\* order (equal samples cannot be told apart).
SortUnstable(q) == SortSeq(q, SampleLess)

\* Faulty variant of P50Index: the lower median.
P50Index_Lower(n) == ((n - 1) * 50) \div 100

\* latency.rs:98-100  the indices (from 0) read from the sorted samples
P50Index(n) == (n * 50) \div 100

P95Index(n) == (n * 95) \div 100

P99Index(n) == Min((n * 99) \div 100, n - 1)

\* The outcome of a stats call that indexes past the end of `sorted`.
STATS_PANIC == [panicked |-> TRUE]

\* latency.rs:90-105  compute_stats
ComputeStats(q) ==
    IF q = <<>> THEN DEFAULT_STATS
    ELSE LET n == Len(q)
         IN IF P50Index(n) < n /\ P95Index(n) < n /\ P99Index(n) < n
            THEN LET sorted == SortUnstable(q)
                 IN [p50_us |-> sorted[P50Index(n) + 1],
                     p95_us |-> sorted[P95Index(n) + 1],
                     p99_us |-> sorted[P99Index(n) + 1],
                     min_us |-> sorted[1],
                     max_us |-> sorted[n],
                     count |-> n]
            ELSE STATS_PANIC

\* What a tracker call leaves in `lat`.
TrackerCall(op, ret, t) == [op |-> op, ret |-> ret, before |-> Tracker, at |-> t]

\* latency.rs:48-50  record_push_start, reading the clock at t
RecordPushStart(t) ==
    /\ t >= now
    /\ now' = t
    /\ lat' = TrackerCall("record_push_start", <<t>>, t)
    /\ UNCHANGED <<trackerVars, recorded, outsideTracker>>

\* latency.rs:52-56  record_push_end(start), reading the clock at t
\* (elapsed) and then at t2 (Instant::now)
RecordPushEnd(start, t, t2) ==
    LET us == ElapsedMicros(start, t)
    IN /\ start <= t /\ now <= t /\ t <= t2
       /\ push_latencies' = PushCapped(push_latencies, us)
       /\ last_push_instant' = <<t2>>
       /\ now' = t2
       /\ lat' = TrackerCall("record_push_end", <<>>, t)
       /\ recorded' = [recorded EXCEPT !.push = Append(@, us),
                                       !.push_ends = LastN(Append(@, <<t, t2>>), 2)]
       /\ UNCHANGED <<processing_latencies, alert_latencies, outsideTracker>>

\* Faulty variant of RecordPoll: a sample of 0 is recorded without a marker.
RecordPoll_AlwaysSamples(t) ==
    LET us == IF last_push_instant # <<>>
              THEN ElapsedMicros(last_push_instant[1], t) ELSE 0
    IN /\ t >= now /\ now' = t
       /\ processing_latencies' = PushCapped(processing_latencies, us)
       /\ recorded' = [recorded EXCEPT !.processing = Append(@, us)]
       /\ lat' = TrackerCall("record_poll", <<>>, t)
       /\ UNCHANGED <<push_latencies, alert_latencies, last_push_instant,
                      outsideTracker>>

\* latency.rs:58-63  record_poll, reading the clock at t when a marker is set
RecordPoll(t) ==
    /\ t >= now
    /\ IF last_push_instant # <<>>
       THEN LET us == ElapsedMicros(last_push_instant[1], t)
            IN /\ processing_latencies' = PushCapped(processing_latencies, us)
               /\ recorded' = [recorded EXCEPT !.processing = Append(@, us)]
               /\ now' = t
       ELSE UNCHANGED <<processing_latencies, recorded, now>>
    /\ lat' = TrackerCall("record_poll", <<>>, t)
    /\ UNCHANGED <<push_latencies, alert_latencies, last_push_instant,
                   outsideTracker>>

\* Faulty variant of RecordAlert: the call also moves the marker.
RecordAlert_MovesMarker(gen_instant, t) ==
    LET us == ElapsedMicros(gen_instant, t)
    IN /\ gen_instant <= t /\ now <= t
       /\ alert_latencies' = PushCapped(alert_latencies, us)
       /\ last_push_instant' = <<t>>
       /\ now' = t
       /\ lat' = TrackerCall("record_alert", <<>>, t)
       /\ recorded' = [recorded EXCEPT !.alert = Append(@, us)]
       /\ UNCHANGED <<push_latencies, processing_latencies, outsideTracker>>

\* latency.rs:65-68  record_alert(gen_instant), reading the clock at t
RecordAlert(gen_instant, t) ==
    LET us == ElapsedMicros(gen_instant, t)
    IN /\ gen_instant <= t /\ now <= t
       /\ alert_latencies' = PushCapped(alert_latencies, us)
       /\ now' = t
       /\ lat' = TrackerCall("record_alert", <<>>, t)
       /\ recorded' = [recorded EXCEPT !.alert = Append(@, us)]
       /\ UNCHANGED <<push_latencies, processing_latencies, last_push_instant,
                      outsideTracker>>

\* Faulty variant of TrackerReset: the alert window is left as it is.
TrackerReset_KeepsAlerts ==
    /\ push_latencies' = <<>>
    /\ processing_latencies' = <<>>
    /\ last_push_instant' = <<>>
    /\ lat' = TrackerCall("reset", <<>>, now)
    /\ recorded' = [NoSamplesYet EXCEPT !.alert = recorded.alert]
    /\ UNCHANGED <<alert_latencies, now, outsideTracker>>

\* latency.rs:41-46  reset
TrackerReset ==
    /\ push_latencies' = <<>>
    /\ processing_latencies' = <<>>
    /\ alert_latencies' = <<>>
    /\ last_push_instant' = <<>>
    /\ lat' = TrackerCall("reset", <<>>, now)
    /\ recorded' = NoSamplesYet
    /\ UNCHANGED <<now, outsideTracker>>

\* A stats call: `&self`, the result is returned.
StatsCall(op, q) ==
    /\ lat' = TrackerCall(op, ComputeStats(q), now)
    /\ UNCHANGED <<trackerVars, now, recorded, outsideTracker>>

\* latency.rs:70-72
PushStats == StatsCall("push_stats", push_latencies)

\* latency.rs:74-76
ProcessingStats == StatsCall("processing_stats", processing_latencies)

\* latency.rs:78-80
AlertStats == StatsCall("alert_stats", alert_latencies)

StatsOps == {"push_stats", "processing_stats", "alert_stats"}

\* The window a stats operation reads, in a tracker value.
WindowOf(op, tracker) ==
    CASE op = "push_stats" -> tracker.push_latencies
      [] op = "processing_stats" -> tracker.processing_latencies
      [] op = "alert_stats" -> tracker.alert_latencies

----------------------------------------------------------------------------
\* Specification SpecLatency: a fresh tracker driven by any interleaving of
\* its eight operations.

MaxLatencyCalls == 4

\* The generator of the run, which no tracker method reads or writes.
GeneratorIdle == GenNew(DEFAULT_FRAUD_RATE) /\ NoCyclesYet

InitLatency == EngineIdle /\ GeneratorIdle

\* One more call of a bounded run.
Counted == lat_calls < MaxLatencyCalls /\ lat_calls' = lat_calls + 1

\* The Instants a caller can hold: one taken when the tracker was built and
\* one taken at the latest clock reading.
HeldInstants == {0, now}

LatPushStart == Counted /\ RecordPushStart(now + 1)

LatPushEnd ==
    /\ Counted
    /\ \E start \in HeldInstants, gap \in {0, 1} :
          RecordPushEnd(start, now + 1, now + 1 + gap)

LatPoll == Counted /\ RecordPoll(now + 1)

LatAlert == Counted /\ \E gen_instant \in HeldInstants : RecordAlert(gen_instant, now + 1)

LatReset == Counted /\ TrackerReset

LatPushStats == Counted /\ PushStats

LatProcessingStats == Counted /\ ProcessingStats

LatAlertStats == Counted /\ AlertStats

NextLatency ==
    \/ LatPushStart
    \/ LatPushEnd
    \/ LatPoll
    \/ LatAlert
    \/ LatReset
    \/ LatPushStats
    \/ LatProcessingStats
    \/ LatAlertStats

SpecLatency == InitLatency /\ [][NextLatency]_vars

----------------------------------------------------------------------------
\* Specification SpecWindow: a fresh tracker, a few free record and reset
\* calls, then the latest record call repeated, one clock tick apart, until
\* its window has overflowed.

FreeWindowTicks == 2

MaxOverfill == 2

WindowOpen(op) ==
    /\ now < FreeWindowTicks + WINDOW_SIZE + MaxOverfill
    /\ now < FreeWindowTicks \/ lat.op = op
    /\ UNCHANGED lat_calls

WindowPushEnd ==
    WindowOpen("record_push_end") /\ RecordPushEnd(0, now + 1, now + 1)

WindowPoll == WindowOpen("record_poll") /\ RecordPoll(now + 1)

WindowAlert == WindowOpen("record_alert") /\ RecordAlert(0, now + 1)

WindowReset == now < FreeWindowTicks /\ TrackerReset /\ UNCHANGED lat_calls

NextWindow == WindowPushEnd \/ WindowPoll \/ WindowAlert \/ WindowReset

SpecWindow == InitLatency /\ [][NextWindow]_vars

\* A window holds the latest WINDOW_SIZE samples recorded into it.
HoldsLatest(q, samples) ==
    /\ Len(q) = Min(Len(samples), WINDOW_SIZE)
    /\ q = LastN(samples, WINDOW_SIZE)
    /\ Len(samples) = WINDOW_SIZE + 1 =>
          (Len(q) = WINDOW_SIZE /\ q[1] = samples[2] /\ q[Len(q)] = samples[Len(samples)])

\* C25: each latency window is a FIFO capped at 1000 samples: it holds the
\* last min(n, 1000) samples recorded into it since the last reset, in
\* recording order; recording the 1001st sample leaves exactly 1000 samples
\* and discards the oldest one.
C25_WindowsHoldLatestThousand ==
    /\ HoldsLatest(push_latencies, recorded.push)
    /\ HoldsLatest(processing_latencies, recorded.processing)
    /\ HoldsLatest(alert_latencies, recorded.alert)

\* The 1001st sample recorded into the processing window, after one
\* record_push_end.
C25_Witness ==
    /\ Len(recorded.processing) = WINDOW_SIZE + 1
    /\ Len(processing_latencies) = WINDOW_SIZE
    /\ processing_latencies[1] # recorded.processing[1]
    /\ Len(recorded.push) = 1
    /\ alert_latencies = <<>>
    /\ now = WINDOW_SIZE + 2

----------------------------------------------------------------------------
\* Specification SpecStats: trackers that have recorded one of a family of
\* sample sequences into one window, asked for their statistics.

\* The samples 1..n in ascending, descending and rotated order, and n
\* samples with repeated values.
Ascending(n) == [i \in 1..n |-> i]

Descending(n) == [i \in 1..n |-> n + 1 - i]

Rotated(n) == [i \in 1..n |-> ((i + n \div 2) % n) + 1]

Repeating(n) == [i \in 1..n |-> (i * i) % 3]

StatsSizes ==
    (1..12) \cup {20, 50, 99, 100, 101, 200, WINDOW_SIZE - 1, WINDOW_SIZE}

StatsWindows ==
    {<<>>} \cup UNION {{Ascending(n), Descending(n), Rotated(n), Repeating(n)} :
                          n \in StatsSizes}

\* A tracker after the calls that recorded w into one window: the
\* processing window only fills after a record_push_end, which sets the
\* marker and records one ingestion sample.
InitStats ==
    /\ EngineNew /\ DefaultThresholds /\ NoCallsYet /\ overflow_checks = FALSE
    /\ GeneratorIdle /\ DefaultRun
    /\ now = 2 * WINDOW_SIZE
    /\ \E w \in StatsWindows, slot \in {"push", "processing", "alert"} :
          /\ push_latencies = CASE slot = "push" -> w
                                [] slot = "processing" /\ w # <<>> -> <<0>>
                                [] OTHER -> <<>>
          /\ processing_latencies = IF slot = "processing" THEN w ELSE <<>>
          /\ alert_latencies = IF slot = "alert" THEN w ELSE <<>>
          /\ last_push_instant = IF slot # "alert" /\ w # <<>> THEN <<now>> ELSE <<>>
    /\ lat = [op |-> "none", ret |-> <<>>, before |-> Tracker, at |-> now]
    /\ recorded = [push |-> push_latencies, processing |-> processing_latencies,
                   alert |-> alert_latencies,
                   push_ends |-> IF last_push_instant = <<>> THEN <<>>
                                 ELSE <<<<now, now>>>>]
    /\ lat_calls = 0

AskPushStats == PushStats /\ UNCHANGED lat_calls

AskProcessingStats == ProcessingStats /\ UNCHANGED lat_calls

AskAlertStats == AlertStats /\ UNCHANGED lat_calls

NextStats == AskPushStats \/ AskProcessingStats \/ AskAlertStats

SpecStats == InitStats /\ [][NextStats]_vars

\* v is the element at index k (from 0) of the ascending sort of q.
IsSortedAt(q, v, k) ==
    /\ Cardinality({i \in DOMAIN q : q[i] < v}) <= k
    /\ k < Cardinality({i \in DOMAIN q : q[i] <= v})

\* q holds exactly the samples 1..100, in any order.
IsOneToHundred(q) ==
    Len(q) = 100 /\ \A v \in 1..100 : \E i \in DOMAIN q : q[i] = v

\* The latest call was a stats operation, on the window q.
StatsAsked == lat.op \in StatsOps

\* C26: for a window of n samples the stats operation returns, from the
\* ascending sort s of the samples, p50 = s[floor(n*50/100)],
\* p95 = s[floor(n*95/100)], p99 = s[min(floor(n*99/100), n-1)], min = s[0],
\* max = s[n-1] and count = n; no index is out of range for any n in
\* 1..1000; on the samples 1..100 it returns p50 = 51, p95 = 96, p99 = 100;
\* an empty window gives all-zero statistics with count 0.
C26_StatsAreOrderStatistics ==
    /\ \A n \in 1..WINDOW_SIZE :
          P50Index(n) \in 0..(n - 1) /\ P95Index(n) \in 0..(n - 1)
          /\ P99Index(n) \in 0..(n - 1)
    /\ StatsAsked =>
          LET q == WindowOf(lat.op, lat.before)
              n == Len(q)
              r == lat.ret
          IN /\ DOMAIN r = DOMAIN DEFAULT_STATS
             /\ r.count = n
             /\ n = 0 => r = DEFAULT_STATS
             /\ n > 0 =>
                   /\ IsSortedAt(q, r.p50_us, (n * 50) \div 100)
                   /\ IsSortedAt(q, r.p95_us, (n * 95) \div 100)
                   /\ IsSortedAt(q, r.p99_us, Min((n * 99) \div 100, n - 1))
                   /\ IsSortedAt(q, r.min_us, 0)
                   /\ IsSortedAt(q, r.max_us, n - 1)
             /\ IsOneToHundred(q) =>
                   (r.p50_us = 51 /\ r.p95_us = 96 /\ r.p99_us = 100)

\* The statistics of a processing window that holds 1..100 out of order.
C26_Witness ==
    /\ lat.op = "processing_stats"
    /\ IsOneToHundred(processing_latencies)
    /\ processing_latencies[1] # 1
    /\ lat.ret.count = 100 /\ lat.ret.min_us = 1 /\ lat.ret.max_us = 100

----------------------------------------------------------------------------
\* Claims checked in SpecLatency

\* Window q is window `before` with exactly one sample added at the back
\* (no window of SpecLatency is full).
OneSampleAdded(q, before) ==
    Len(q) = Len(before) + 1 /\ SubSeq(q, 1, Len(before)) = before

\* C27: reset() empties all three latency windows and clears the
\* processing-latency origin marker in one step: immediately after reset,
\* in any prior state, push_stats, processing_stats and alert_stats all
\* return all-zero statistics with count 0.
C27_ResetClearsEverything ==
    lat.op = "reset" =>
        /\ push_latencies = <<>>
        /\ processing_latencies = <<>>
        /\ alert_latencies = <<>>
        /\ last_push_instant = <<>>
        /\ \A op \in StatsOps : ComputeStats(WindowOf(op, Tracker)) = DEFAULT_STATS

\* A reset of a tracker with samples in all three windows and a marker.
C27_Witness ==
    /\ lat.op = "reset"
    /\ lat.before.push_latencies # <<>>
    /\ lat.before.processing_latencies # <<>>
    /\ lat.before.alert_latencies # <<>>
    /\ lat.before.last_push_instant # <<>>

\* C28: the three latency windows are independent: record_push_end adds
\* exactly one sample to the ingestion window and changes no other window,
\* record_alert adds exactly one sample to the alert window and changes
\* nothing else, record_poll changes nothing but the processing window, and
\* record_push_start and the three stats operations change no tracker
\* state.
C28_WindowsAreIndependent ==
    /\ lat.op = "record_push_end" =>
          /\ OneSampleAdded(push_latencies, lat.before.push_latencies)
          /\ processing_latencies = lat.before.processing_latencies
          /\ alert_latencies = lat.before.alert_latencies
    /\ lat.op = "record_alert" =>
          /\ OneSampleAdded(alert_latencies, lat.before.alert_latencies)
          /\ push_latencies = lat.before.push_latencies
          /\ processing_latencies = lat.before.processing_latencies
          /\ last_push_instant = lat.before.last_push_instant
    /\ lat.op = "record_poll" =>
          /\ push_latencies = lat.before.push_latencies
          /\ alert_latencies = lat.before.alert_latencies
          /\ last_push_instant = lat.before.last_push_instant
    /\ lat.op \in StatsOps \cup {"record_push_start"} => Tracker = lat.before

\* A record_alert call on a tracker with samples in the other two windows
\* and a marker older than the call.
C28_Witness ==
    /\ lat.op = "record_alert"
    /\ push_latencies # <<>> /\ processing_latencies # <<>>
    /\ last_push_instant # <<>> /\ last_push_instant # <<lat.at>>
    /\ alert_latencies = <<lat.at>>

\* The record_push_end calls since construction or the last reset, as
\* <<first clock reading, second clock reading>>, latest last.
PushEndsSinceReset == recorded.push_ends

\* C29: every record_poll call made after at least one record_push_end
\* since construction or the last reset adds exactly one sample to the
\* processing window, measured from the most recent record_push_end and not
\* from an earlier one; a record_poll call with no record_push_end since
\* construction or the last reset adds no sample and changes no state.
C29_PollMeasuresFromLatestPushEnd ==
    lat.op = "record_poll" =>
        IF PushEndsSinceReset # <<>>
        THEN LET latest == PushEndsSinceReset[Len(PushEndsSinceReset)]
                 sample == processing_latencies[Len(processing_latencies)]
             IN /\ OneSampleAdded(processing_latencies,
                                  lat.before.processing_latencies)
                /\ lat.at - sample \in latest[1]..latest[2]
                /\ \A i \in 1..(Len(PushEndsSinceReset) - 1) :
                      PushEndsSinceReset[i][2] < latest[1]
                /\ last_push_instant = lat.before.last_push_instant
        ELSE Tracker = lat.before

\* A poll after two record_push_end calls.
C29_Witness ==
    /\ lat.op = "record_poll"
    /\ Len(PushEndsSinceReset) = 2
    /\ processing_latencies = <<lat.at - PushEndsSinceReset[2][2]>>
    /\ PushEndsSinceReset[1][2] < PushEndsSinceReset[2][2]

----------------------------------------------------------------------------
\* Part 5: the driving loops

\* main.rs:61, web.rs:105-109, tui.rs:89-93  `run_duration`, in seconds
RunDuration(d) == IF d = 0 THEN ZERO_DURATION_SECS ELSE d

\* main.rs:64, web.rs:112  `while start.elapsed() < run_duration`
TimeLeft == uptime < RunDuration(duration)

\* tui.rs:95  `while !app.should_quit && app.uptime.elapsed() < run_duration`;
\* should_quit stays FALSE in the other two modes.
LoopCondition == ~should_quit /\ TimeLeft

\* tui.rs:99-115  the keys run_app distinguishes, and no key within 150 ms
KEYS == {"none", "q", "Esc", "Up", "Down", "other"}

\* tui.rs:103
QuitKeys == {"q", "Esc"}

\* One iteration of run_headless (main.rs:64-161) that takes secs seconds,
\* its 200 ms sleep included.
HeadlessTurn(secs) ==
    /\ mode = "headless" /\ pc = "loop" /\ LoopCondition
    /\ uptime' = uptime + secs
    /\ UNCHANGED <<mode, duration, should_quit, pc, outsideLoop>>

\* One iteration of run_engine (web.rs:112-229) that takes secs seconds.
WebTurn(secs) ==
    /\ mode = "web" /\ pc = "loop" /\ LoopCondition
    /\ uptime' = uptime + secs
    /\ UNCHANGED <<mode, duration, should_quit, pc, outsideLoop>>

\* One iteration of run_app (tui.rs:95-230) that takes secs seconds and
\* reads `key`.
TuiTurn(secs, key) ==
    /\ mode = "tui" /\ pc = "loop" /\ LoopCondition
    /\ should_quit' = (key \in QuitKeys)
    /\ uptime' = uptime + secs
    /\ UNCHANGED <<mode, duration, pc, outsideLoop>>

\* The loop condition fails: control passes to the code after the loop.
LoopEnds ==
    /\ pc = "loop" /\ ~LoopCondition
    /\ pc' = "after_loop"
    /\ UNCHANGED <<mode, duration, uptime, should_quit, outsideLoop>>

\* main.rs:163-189, tui.rs:214, web.rs:232  after the loop (and, headless,
\* the summary): `let _ = pipeline.db.shutdown().await;`
ShutDown ==
    /\ pc = "after_loop"
    /\ db' = "shut_down"
    /\ pc' = "shut_down"
    /\ UNCHANGED <<mode, duration, uptime, should_quit, components, hostVars,
                   streams_created, subs, watermark, events, driveObsVars,
                   webVars>>

\* The function a mode's run function waits for before it returns:
\* run_headless is the run function itself (main.rs:38), tui::run awaits
\* run_app (tui.rs:70), and web::run awaits axum::serve (web.rs:70) after it
\* spawned run_engine as a task of its own (web.rs:61-65).
RunAwaits(m) ==
    CASE m = "headless" -> "run_headless"
      [] m = "tui" -> "run_app"
      [] m = "web" -> "axum::serve"

\* The function that holds the driving loop of a mode (main.rs:64,
\* tui.rs:95, web.rs:112).
LoopOwner(m) ==
    CASE m = "headless" -> "run_headless"
      [] m = "tui" -> "run_app"
      [] m = "web" -> "run_engine"

\* main.rs:190, tui.rs:215, web.rs:233  `Ok(())`: the function that holds
\* the driving loop returns.  The mode's run function returns with it
\* (tui::run after restoring the terminal, tui.rs:72-77) when that is the
\* function it waits for; axum::serve was given no shutdown signal and is
\* not woken by the end of the engine task.
Return ==
    /\ pc = "shut_down"
    /\ pc' = "done"
    /\ run_returned' = (run_returned \/ RunAwaits(mode) = LoopOwner(mode))
    /\ UNCHANGED <<mode, duration, uptime, should_quit, components, clock_ms,
                   wall, pipelineVars, driveObsVars, webVars>>

----------------------------------------------------------------------------
\* Specification SpecRun: a run in each mode, with --duration 0 and with a
\* short positive --duration; an iteration takes a second or a quarter of an
\* hour.

Durations == {DEFAULT_DURATION, 2}

TurnSecs == {1, 900}

InitRun ==
    /\ EngineNew /\ DefaultThresholds /\ NoCallsYet /\ overflow_checks = FALSE
    /\ GeneratorIdle /\ TrackerIdle
    /\ \E m \in MODES, d \in Durations : RunAt(m, d)

RunHeadless == \E secs \in TurnSecs : HeadlessTurn(secs)

RunWeb == \E secs \in TurnSecs : WebTurn(secs)

RunTui == \E secs \in TurnSecs, key \in KEYS : TuiTurn(secs, key)

NextRun == RunHeadless \/ RunWeb \/ RunTui \/ LoopEnds \/ ShutDown \/ Return

SpecRun == InitRun /\ [][NextRun]_vars

\* C30 as stated: with --duration 0 the run is infinite: the headless, TUI
\* and web driving loops never stop on their own (without a quit key),
\* whatever the elapsed time.
C30_ZeroDurationNeverStops ==
    (duration = 0 /\ pc = "after_loop") => should_quit

\* C31 as stated: with a positive --duration the run in every mode ends
\* once the duration has elapsed: when the driving loop has stopped and the
\* function holding it has shut the pipeline down and finished, the time is
\* up, the pipeline is shut down and the mode's run function has returned.
C31_RunEndsAfterDuration ==
    (duration > 0 /\ pc = "done") =>
        /\ ~TimeLeft \/ should_quit
        /\ db = "shut_down"
        /\ run_returned

----------------------------------------------------------------------------
\* Part 6: the detection streams

\* detection.rs:121  `BETWEEN t.ts - 10000 AND t.ts + 10000`
JOIN_BOUND_MS == 10000

\* detection.rs:103  `TUMBLE(ts, INTERVAL '5' SECOND)`, in milliseconds
WASH_TUMBLE_MS == 5000

\* Faulty variant of JoinOn: the time bound dropped from the ON clause.
JoinOn_SymbolOnly(t, o) == t.symbol = o.symbol

\* detection.rs:120-121  the ON clause of suspicious_match; BETWEEN
\* includes both ends
JoinOn(t, o) ==
    /\ t.symbol = o.symbol
    /\ o.ts >= t.ts - JOIN_BOUND_MS
    /\ o.ts <= t.ts + JOIN_BOUND_MS

\* detection.rs:110-117  the SELECT list of suspicious_match
SuspiciousMatchRow(t, o) ==
    [symbol |-> t.symbol, trade_price |-> t.price, volume |-> t.volume,
     order_id |-> o.order_id, account_id |-> o.account_id, side |-> o.side,
     order_price |-> o.price, price_diff |-> t.price - o.price]

\* detection.rs:109-121  suspicious_match over the records pushed so far:
\* one row per pair (i-th trade, j-th order) that satisfies the ON clause
SuspiciousMatchView(trades, orders) ==
    [p \in {q \in (DOMAIN trades) \X (DOMAIN orders) :
                JoinOn(trades[q[1]], orders[q[2]])} |->
        SuspiciousMatchRow(trades[p[1]], orders[p[2]])]

\* The largest timestamp pushed to either source (0 when nothing was).
LatestEventTs ==
    LET all == {events["trades"][i].ts : i \in DOMAIN events["trades"]} \cup
               {events["orders"][i].ts : i \in DOMAIN events["orders"]} \cup {0}
    IN CHOOSE m \in all : \A x \in all : x <= m

\* correctness.rs:230  `pipeline.trade_source.push_batch(trades)` (main.rs:73)
PushTrades(batch) ==
    /\ db = "running" /\ polled = <<>>
    /\ events' = [events EXCEPT !["trades"] = @ \o batch]
    /\ UNCHANGED <<components, runVars, hostVars, db, streams_created, subs,
                   watermark, driveObsVars, webVars>>

\* correctness.rs:231  `pipeline.order_source.push_batch(orders)` (main.rs:75)
PushOrders(batch) ==
    /\ db = "running" /\ polled = <<>>
    /\ events' = [events EXCEPT !["orders"] = @ \o batch]
    /\ UNCHANGED <<components, runVars, hostVars, db, streams_created, subs,
                   watermark, driveObsVars, webVars>>

\* correctness.rs:232-236  both watermarks are advanced by `ahead` past every
\* pushed record, then collect_all (correctness.rs:12-29) drains the
\* subscription of suspicious_match.
CollectMatches(ahead) ==
    /\ db = "running" /\ polled = <<>> /\ subs["suspicious_match"]
    /\ watermark' = [src \in SOURCES |-> <<LatestEventTs + ahead>>]
    /\ polled' = <<[stream |-> "suspicious_match",
                    rows |-> SuspiciousMatchView(events["trades"],
                                                 events["orders"])]>>
    /\ UNCHANGED <<components, runVars, hostVars, db, streams_created, subs,
                   events, setup_result, pushed, webVars>>

----------------------------------------------------------------------------
\* Specification SpecJoin: the procedure of the suspicious_match tests
\* (correctness.rs:215-256, 459-519) on any few trades and orders: push,
\* advance the watermarks, collect.

MaxJoinTrades == 2

MaxJoinOrders == 1

\* 180.50 at 100 s, 110 s and 110.001 s
JoinTrades ==
    [account_id : {"C1"}, symbol : {"AMZN", "AAPL"}, side : {"buy"},
     price : {1805000}, volume : {50}, order_ref : {"ORD-1"},
     ts : {100000, 110000, 110001}]

\* 180.55 and 179.00 at 100 s and 200 s
JoinOrders ==
    [order_id : {"ORD-1"}, account_id : {"C2"}, symbol : {"AMZN", "GOOGL"},
     side : {"sell"}, quantity : {50}, price : {1805500, 1790000},
     ts : {100000, 200000}]

WatermarkAhead == {20000, 50000}

InitJoin == EngineIdle /\ GeneratorIdle

JoinPushTrade ==
    /\ Len(events["trades"]) < MaxJoinTrades
    /\ \E t \in JoinTrades : PushTrades(<<t>>)

JoinPushOrder ==
    /\ Len(events["orders"]) < MaxJoinOrders
    /\ \E o \in JoinOrders : PushOrders(<<o>>)

JoinCollect == \E ahead \in WatermarkAhead : CollectMatches(ahead)

NextJoin == JoinPushTrade \/ JoinPushOrder \/ JoinCollect

SpecJoin == InitJoin /\ [][NextJoin]_vars

\* The rows collected from `stream`, keyed as the view keys them; the empty
\* function when that stream was not collected.
Collected(stream) ==
    IF polled # <<>> /\ polled[1].stream = stream THEN polled[1].rows
    ELSE <<>>

----------------------------------------------------------------------------
\* The wash_score stream

\* detection.rs:103  tumble(ts, 5 s): the start of the window that holds ts
TumbleStart(ts) == ts - (ts % WASH_TUMBLE_MS)

\* Faulty variant of WashGroup: the window left out of the key.
WashGroup_NoWindow(t) == <<t.account_id, t.symbol, 0>>

\* detection.rs:103  `GROUP BY account_id, symbol, TUMBLE(ts, ...)`
WashGroup(t) == <<t.account_id, t.symbol, TumbleStart(t.ts)>>

\* detection.rs:98  `CASE WHEN side = 'buy' THEN volume ELSE CAST(0 AS BIGINT) END`
BuyVolumeTerm(t) == IF t.side = "buy" THEN t.volume ELSE 0

\* detection.rs:99
SellVolumeTerm(t) == IF t.side = "sell" THEN t.volume ELSE 0

\* detection.rs:100  `CASE WHEN side = 'buy' THEN 1 ELSE 0 END`
BuyCountTerm(t) == IF t.side = "buy" THEN 1 ELSE 0

\* detection.rs:101
SellCountTerm(t) == IF t.side = "sell" THEN 1 ELSE 0

\* SUM(term) over the trades of group g
GroupSum(trades, g, Term(_)) ==
    SumSeq([i \in DOMAIN trades |->
               IF WashGroup(trades[i]) = g THEN Term(trades[i]) ELSE 0])

\* detection.rs:96-101  the SELECT list of wash_score for group g
WashScoreRow(trades, g) ==
    [account_id |-> g[1], symbol |-> g[2],
     buy_volume |-> GroupSum(trades, g, BuyVolumeTerm),
     sell_volume |-> GroupSum(trades, g, SellVolumeTerm),
     buy_count |-> GroupSum(trades, g, BuyCountTerm),
     sell_count |-> GroupSum(trades, g, SellCountTerm)]

\* detection.rs:95-103  wash_score over the trades pushed so far: one row per
\* group that holds a trade
WashScoreView(trades) ==
    [g \in {WashGroup(trades[i]) : i \in DOMAIN trades} |->
        WashScoreRow(trades, g)]

\* correctness.rs:189-193  both watermarks are advanced by `ahead` past every
\* pushed record, then collect_all drains the subscription of wash_score.
CollectWashScores(ahead) ==
    /\ db = "running" /\ polled = <<>> /\ subs["wash_score"]
    /\ watermark' = [src \in SOURCES |-> <<LatestEventTs + ahead>>]
    /\ polled' = <<[stream |-> "wash_score",
                    rows |-> WashScoreView(events["trades"])]>>
    /\ UNCHANGED <<components, runVars, hostVars, db, streams_created, subs,
                   events, setup_result, pushed, webVars>>

\* main.rs:130-133  a collected wash_score row is handed to evaluate_wash
FeedWashRow(g) ==
    /\ g \in DOMAIN Collected("wash_score")
    /\ EvaluateWash(Collected("wash_score")[g])

----------------------------------------------------------------------------
\* Specification SpecWash: the procedure of the wash_score tests
\* (correctness.rs:172-209, 524-554) on any few trades of one account: push,
\* advance the watermarks, collect, and hand a collected row to a fresh
\* engine.

MaxWashTrades == 4

MaxWashFeeds == 1

\* buys of 100 and sells of 150, in two symbols, either side of the window
\* boundary at 105 s
WashTrades ==
    {[account_id |-> "TEST-WS", symbol |-> sym, side |-> side,
      price |-> 28000000, volume |-> IF side = "buy" THEN 100 ELSE 150,
      order_ref |-> "", ts |-> ts] :
        sym \in {"GOOGL", "AMZN"}, side \in {"buy", "sell"},
        ts \in {104999, 105000}}

InitWash == EngineIdle /\ GeneratorIdle

WashPushTrade ==
    /\ Len(events["trades"]) < MaxWashTrades
    /\ \E t \in WashTrades : PushTrades(<<t>>)

WashCollect == \E ahead \in WatermarkAhead : CollectWashScores(ahead)

WashFeed ==
    /\ calls < MaxWashFeeds
    /\ \E g \in DOMAIN Collected("wash_score") : FeedWashRow(g)

NextWash == WashPushTrade \/ WashCollect \/ WashFeed

SpecWash == InitWash /\ [][NextWash]_vars

\* The pushed trades of account a and symbol s whose timestamp lies in the
\* five seconds from w, on the given side.
TradesOf(a, s, w, side) ==
    SelectSeq(events["trades"],
              LAMBDA t : /\ t.account_id = a /\ t.symbol = s /\ t.side = side
                         /\ t.ts >= w /\ t.ts < w + 5000)

----------------------------------------------------------------------------
\* Part 7: one iteration of the headless driving loop, as the pipeline sees
\* it.  The rows a poll delivers come from the engine behind the pipeline;
\* what evaluating them does is modelled in Parts 1 and 4.  main.rs:147-158
\* polls a sixth subscription (asof_match_sub) that DetectionPipeline
\* (detection.rs:5-15) does not have; it is left out.

\* main.rs:77-78  `ts + 10_000`
WATERMARK_AHEAD_MS == 10000

\* main.rs:160  `tokio::time::sleep(Duration::from_millis(200))`
SLEEP_MS == 200

\* main.rs:82, 95, 108, 121, 134  `if let Some(ref sub) = pipeline.<stream>_sub`:
\* the streams an iteration polls, in order
PolledStreams == SelectSeq(STREAMS, LAMBDA name : subs[name])

\* The timestamps of a batch of records.
EventTimes(records) == {records[i].ts : i \in DOMAIN records}

\* main.rs:77-78  the watermark passed to both sources
NextWatermark(ts) == ts + WATERMARK_AHEAD_MS

\* main.rs:64-161  one iteration of run_headless.  `ms` is the time it takes
\* on the monotonic clock, its sleep included; `step` is what an adjustment
\* of the system clock adds to the wall clock meanwhile (now_ms reads
\* chrono::Utc::now, generator.rs:57-59, which is not monotonic).
HeadlessCycle(ms, step, draw) ==
    LET ts == wall
    IN /\ mode = "headless" /\ pc = "loop" /\ LoopCondition /\ db = "running"
       /\ ms >= SLEEP_MS
       /\ ~GenBoolPanics(InjectProbability(fraud_rate))
       /\ GenerateCycleStep(ts, draw)
       /\ events' = [events EXCEPT
                        !["trades"] = @ \o cycle'.trades,
                        !["orders"] = @ \o cycle'.orders]
       /\ watermark' = [src \in SOURCES |-> <<NextWatermark(ts)>>]
       /\ pushed' = [n |-> pushed.n + 1, ts |-> ts,
                     times |-> [src \in SOURCES |->
                                   IF src = "trades" THEN EventTimes(cycle'.trades)
                                   ELSE EventTimes(cycle'.orders)],
                     before |-> watermark]
       /\ polled' = [i \in DOMAIN PolledStreams |-> [stream |-> PolledStreams[i]]]
       /\ clock_ms' = clock_ms + ms
       /\ uptime' = clock_ms' \div 1000
       /\ wall' = wall + ms + step
       /\ UNCHANGED <<engineVars, thresholdVars, obsVars, overflow_checks,
                      trackerVars, trackerObsVars, twinVars, mode, duration,
                      should_quit,
                      pc, run_returned, db, streams_created, subs,
                      setup_result, webVars>>

----------------------------------------------------------------------------
\* Specification SpecHeadless: a headless run of a few iterations with
\* --duration 2; an iteration takes 200 ms, a second or twelve seconds, the
\* system clock is left alone or set back three seconds, and a cycle is
\* normal or injects a Rapid-Fire burst.

MaxHeadlessCycles == 3

CycleMillis == {SLEEP_MS, 1000, 12000}

WallSteps == {0, -3000}

HeadlessDraws ==
    {Draw(FALSE, 2, 1, 1, NoFraudDraws, Uniform(LowDraw)),
     Draw(TRUE, 3, 1, 1, Repeated(20, RapidHigh), Uniform(HighDraw))}

InitHeadless ==
    /\ EngineNew /\ DefaultThresholds /\ NoCallsYet /\ overflow_checks = FALSE
    /\ GeneratorIdle /\ TrackerIdle
    /\ RunAt("headless", 2)

HeadlessIteration ==
    /\ cycles < MaxHeadlessCycles
    /\ \E ms \in CycleMillis, step \in WallSteps, draw \in HeadlessDraws :
          HeadlessCycle(ms, step, draw)

NextHeadless == HeadlessIteration \/ LoopEnds \/ ShutDown \/ Return

SpecHeadless == InitHeadless /\ [][NextHeadless]_vars

\* C34 as stated: in the headless driving loop, once the watermark of a
\* stream (trades or orders) has been advanced to W, no event with a
\* timestamp at or before W is pushed on that stream in any later cycle, and
\* the watermark values passed to a stream never decrease.
C34_NoEventAtOrBeforeWatermark ==
    \A src \in SOURCES :
        pushed.before[src] # <<>> =>
            /\ \A t \in pushed.times[src] : t > pushed.before[src][1]
            /\ watermark[src][1] >= pushed.before[src][1]

----------------------------------------------------------------------------
\* The arc across calls (SpecArc)

\* The latest call applied the reversal to the price of sym.
Reversed(sym) == BagIn(REVERSAL, AddedMoves(sym))

\* The symbols the latest call pushed by 2-4%.
PushedSymbols == {sym \in SymbolNames : Pushed(sym) \/ Reversed(sym)}

\* C35 as stated: every arc armed for a symbol X is completed on X: a call
\* that starts with the arc armed for X and ends with the arc disarmed or
\* targeting another symbol has applied the reversal to X's price, for every
\* sequence of generate_cycle calls, those that draw Price Manipulation
\* again while an arc is in progress included.
C35_EveryArcIsCompleted ==
    \A sym \in SymbolNames :
        (/\ cycle.outcome = "returned"
         /\ cycle.before.manipulation_symbol = <<sym>>
         /\ manipulation_symbol # <<sym>>) => Reversed(sym)

\* C36 as stated: at every generate_cycle call boundary the arc state is
\* consistent: the remaining-cycle count is in 0..3; it is greater than 0
\* exactly when a target symbol is set; it decreases by exactly 1 per call
\* while an arc is active, so an arc that is not re-armed is disarmed within
\* 3 calls counting the arming call; and at most one symbol receives the
\* manipulation push in one call.
C36_ArcStateConsistent ==
    /\ manipulation_remaining \in 0..3
    /\ manipulation_remaining > 0 <=> manipulation_symbol # <<>>
    /\ (cycle.outcome = "returned" /\ cycle.before.manipulation_remaining > 0) =>
           manipulation_remaining = cycle.before.manipulation_remaining - 1
    /\ cycle.armed_ago >= 2 => manipulation_remaining = 0
    /\ cycle.outcome = "returned" => Cardinality(PushedSymbols) <= 1

----------------------------------------------------------------------------
\* Part 8: detection::setup

\* detection.rs:18-48, 149-152  the statements of setup that end in `?`
SetupSteps == {"build", "create_sources", "start", "source_handles"}

\* detection.rs:167-178  try_create: whether the CREATE STREAM executed
TryCreate(faults, name) == faults.created[name]

\* Faulty variant of SetupSub: subscribes whether or not the stream exists.
SetupSub_IgnoresCreation(ok, subscribed) == subscribed

\* detection.rs:126-141  setup_sub!: Some(sub) when the stream was created
\* and subscribe returned Ok; the result of CREATE SINK is dropped
SetupSub(ok, subscribed) == ok /\ subscribed

\* detection.rs:17-165  detection::setup under the faults `faults`, called
\* first thing by run_headless (main.rs:47); `?` hands an Err to main, which
\* returns it (main.rs:38).
Setup(faults) ==
    /\ pc = "setup"
    /\ IF faults.fails = "none"
       THEN /\ streams_created' =
                   [i \in 1..Len(STREAMS) |->
                       <<STREAMS[i], TryCreate(faults, STREAMS[i])>>]
            /\ subs' = [name \in StreamNames |->
                           SetupSub(TryCreate(faults, name),
                                    faults.subscribed[name])]
            /\ db' = "running"
            /\ setup_result' = [result |-> "Ok", faults |-> faults]
            /\ pc' = "loop"
            /\ UNCHANGED run_returned
       ELSE /\ setup_result' = [result |-> "Err", faults |-> faults]
            /\ pc' = "done"
            /\ run_returned' = TRUE
            /\ UNCHANGED <<streams_created, subs, db>>
    /\ UNCHANGED <<components, mode, duration, uptime, should_quit, clock_ms,
                   wall, watermark, events, pushed, polled, webVars>>

----------------------------------------------------------------------------
\* Specification SpecSetup: a headless run from its first statement, with
\* any combination of failed stream creations, at most one failed subscribe
\* and at most one failed `?` statement, followed by iterations of the
\* driving loop.

MaxSetupCycles == 1

SetupFaults ==
    {[fails |-> f, created |-> c, subscribed |-> s] :
        f \in {"none"} \cup SetupSteps,
        c \in [StreamNames -> BOOLEAN],
        s \in {[name \in StreamNames |-> name # bad] :
                  bad \in StreamNames \cup {"none"}}}

InitSetup ==
    /\ EngineNew /\ DefaultThresholds /\ NoCallsYet /\ overflow_checks = FALSE
    /\ GeneratorIdle /\ TrackerIdle
    /\ mode = "headless" /\ duration = 2 /\ uptime = 0 /\ should_quit = FALSE
    /\ pc = "setup"
    /\ run_returned = FALSE /\ clock_ms = 0 /\ wall = 0
    /\ db = "none"
    /\ streams_created = <<>>
    /\ subs = [name \in StreamNames |-> FALSE]
    /\ watermark = NoWatermarks
    /\ events = NoEvents
    /\ setup_result = [result |-> "none", faults |-> NoFaults]
    /\ NoIterationYet
    /\ NoClients
    /\ NoTwinCallsYet

RunSetup == \E faults \in SetupFaults : Setup(faults)

SetupIteration ==
    /\ cycles < MaxSetupCycles
    /\ \E draw \in HeadlessDraws : HeadlessCycle(SLEEP_MS, 0, draw)

NextSetup == RunSetup \/ SetupIteration

SpecSetup == InitSetup /\ [][NextSetup]_vars

\* The streams of an iteration's polls, in order.
PolledNames == [i \in DOMAIN polled |-> polled[i].stream]

----------------------------------------------------------------------------
\* Part 9: web mode.  run_engine broadcasts one update per iteration; a
\* WebSocket client subscribes in ws_handler and a task of its own forwards
\* to its socket.  An update is identified by its number; what it holds is
\* computed by Parts 1 to 4.  The channel is tokio's broadcast channel: it
\* retains the latest CHANNEL_CAPACITY messages, a send with no receiver
\* stores nothing and returns an error, and a receiver whose next message
\* was overwritten gets RecvError::Lagged.

\* The position of the oldest message the channel retains.
Oldest(ch) == ch.tail - Len(ch.buffer)

\* web.rs:226  `tx.send(json)`: never waits
Send(ch, msg) ==
    IF ch.receivers = 0 THEN ch
    ELSE [ch EXCEPT !.buffer = IF Len(@) < CHANNEL_CAPACITY THEN Append(@, msg)
                               ELSE Append(Tail(@), msg),
                    !.tail = @ + 1]

\* Faulty variant of Recv: a receiver that lagged is handed the oldest
\* retained message.
Recv_SkipsToOldest(ch, next) ==
    IF next < Oldest(ch) THEN [kind |-> "Ok", msg |-> ch.buffer[1]]
    ELSE IF next < ch.tail
    THEN [kind |-> "Ok", msg |-> ch.buffer[next - Oldest(ch) + 1]]
    ELSE [kind |-> "Pending"]

\* web.rs:83  `rx.recv().await` for a receiver at position `next`
Recv(ch, next) ==
    IF next < Oldest(ch) THEN [kind |-> "Lagged"]
    ELSE IF next < ch.tail
    THEN [kind |-> "Ok", msg |-> ch.buffer[next - Oldest(ch) + 1]]
    ELSE [kind |-> "Pending"]

\* web.rs:112-229  one iteration of run_engine that takes secs seconds: it
\* builds update number n and sends it (web.rs:225-227, the result of send
\* dropped), then sleeps.
WebCycle(secs) ==
    LET n == channel.updates + 1
    IN /\ mode = "web" /\ pc = "loop" /\ LoopCondition
       /\ channel' = Send([channel EXCEPT !.updates = n], n)
       /\ uptime' = uptime + secs
       /\ clock_ms' = clock_ms + 1000 * secs
       /\ UNCHANGED <<components, mode, duration, should_quit, pc,
                      run_returned, wall, pipelineVars, driveObsVars, rx,
                      socket>>

\* web.rs:74-80  ws_handler: `state.tx.subscribe()`, then the upgrade
\* spawns handle_socket
ClientConnects ==
    /\ mode = "web" /\ rx.state = "none"
    /\ rx' = [state |-> "open", next |-> channel.tail,
              since |-> channel.updates]
    /\ channel' = [channel EXCEPT !.receivers = @ + 1]
    /\ socket' = [open |-> TRUE, got |-> <<>>]
    /\ UNCHANGED <<components, runVars, hostVars, pipelineVars, driveObsVars>>

\* The peer closes the connection.
ClientCloses ==
    /\ rx.state = "open" /\ socket.open
    /\ socket' = [socket EXCEPT !.open = FALSE]
    /\ UNCHANGED <<components, runVars, hostVars, pipelineVars, driveObsVars,
                   channel, rx>>

\* web.rs:82-88  one turn of handle_socket's loop, once recv has something to
\* return: an Err from recv ends the loop, a message is sent to the socket,
\* and a failed send ends the loop; the receiver is dropped with the task.
Forward ==
    LET r == Recv(channel, rx.next)
    IN /\ rx.state = "open" /\ r.kind # "Pending"
       /\ IF r.kind = "Lagged"
          THEN /\ rx' = [rx EXCEPT !.state = "lagged"]
               /\ socket' = [socket EXCEPT !.open = FALSE]
               /\ channel' = [channel EXCEPT !.receivers = @ - 1]
          ELSE IF socket.open
          THEN /\ rx' = [rx EXCEPT !.next = @ + 1]
               /\ socket' = [socket EXCEPT !.got = Append(@, r.msg)]
               /\ UNCHANGED channel
          ELSE /\ rx' = [rx EXCEPT !.state = "send_failed", !.next = @ + 1]
               /\ channel' = [channel EXCEPT !.receivers = @ - 1]
               /\ UNCHANGED socket
       /\ UNCHANGED <<components, runVars, hostVars, pipelineVars, driveObsVars>>

----------------------------------------------------------------------------
\* Specification SpecWeb: a web run with --duration 0 and one client that
\* connects early, forwards at any pace, and may close its side.  The engine
\* builds at most MaxEarlyUpdates + 1 updates before the client connects,
\* stores MaxOverrun messages more than the channel holds while the client
\* is connected, and builds MaxOverrun updates after the client's loop ended.

MaxOverrun == 2

MaxEarlyUpdates == 0

InitWeb ==
    /\ EngineNew /\ DefaultThresholds /\ NoCallsYet /\ overflow_checks = FALSE
    /\ GeneratorIdle /\ TrackerIdle
    /\ RunAt("web", DEFAULT_DURATION)

\* The updates built since the client subscribed that the channel did not
\* store: those sent after the client's receiver was dropped.
Unstored == channel.updates - rx.since - channel.tail

WebIteration ==
    /\ CASE rx.state = "none" -> channel.updates <= MaxEarlyUpdates
         [] rx.state = "open" -> channel.tail < CHANNEL_CAPACITY + MaxOverrun
         [] OTHER -> Unstored < MaxOverrun
    /\ WebCycle(1)

NextWeb == WebIteration \/ ClientConnects \/ Forward \/ ClientCloses

SpecWeb == InitWeb /\ [][NextWeb]_vars

\* C39: a connected client never observes a gap or a reordering: its socket
\* is sent the updates built after its subscription, in order, one by one;
\* a client found more than 256 updates behind has its forwarding loop ended
\* with nothing further sent to it; and whatever the client does (slow,
\* lagged, closed), run_engine has built one update per iteration and its
\* next iteration can run.
C39_ClientSeesNoGap ==
    /\ \A i \in 1..Len(socket.got) : socket.got[i] = rx.since + i
    /\ Len(socket.got) <= channel.updates - rx.since
    /\ rx.state = "lagged" =>
          /\ channel.updates - (rx.since + Len(socket.got)) > CHANNEL_CAPACITY
          /\ ~socket.open
    /\ (rx.state = "open" /\ Recv(channel, rx.next).kind = "Ok") =>
          Recv(channel, rx.next).msg = rx.since + Len(socket.got) + 1
    /\ channel.updates = uptime
    /\ (pc = "loop" /\ LoopCondition) => ENABLED WebCycle(1)

\* The client subscribed after update 1, was sent update 2 only, was found
\* 257 behind and had its loop ended; the engine has built another update
\* since.
C39_Witness ==
    /\ rx.state = "lagged"
    /\ rx.since = 1
    /\ socket.got = <<2>>
    /\ channel.tail = CHANNEL_CAPACITY + 2
    /\ channel.updates = rx.since + channel.tail + 1
    /\ channel.receivers = 0


----------------------------------------------------------------------------
(* Part 10: the evaluate operations with the clock readings they take      *)
(*                                                                         *)
(* Every evaluate_* method takes gen_instant and, when it builds an alert, *)
(* reads the monotonic clock (gen_instant.elapsed()) and the wall clock    *)
(* (Utc::now()).  A reading is the three values one call sees.  The        *)
(* methods are written here as functions from an engine value, a row and a *)
(* reading to the engine value after the call, so that two engines can be  *)
(* stepped side by side on the same row with different readings.           *)

\* alerts.rs:117-124 and the like: the Alert with its two clock fields
TimedAlert_SeverityByLatency(e, type, severity, description, at) ==
    [id |-> e.next_id + 1, alert_type |-> type,
     severity |-> IF ElapsedMicros(at.gen_instant, at.now) > 1000
                  THEN "Critical" ELSE severity,
     description |-> description,
     latency_us |-> ElapsedMicros(at.gen_instant, at.now),
     timestamp_ms |-> at.wall]

\* alerts.rs:117-124 and the like: the Alert with its two clock fields
TimedAlert(e, type, severity, description, at) ==
    [id |-> e.next_id + 1, alert_type |-> type, severity |-> severity,
     description |-> description,
     latency_us |-> ElapsedMicros(at.gen_instant, at.now),
     timestamp_ms |-> at.wall]

\* `self.next_id += 1; ... self.push_alert(alert.clone()); return Some(alert)`
TimedRaise(e, alert) ==
    [e EXCEPT !.next_id = @ + 1,
              !.counts = BumpCount(@, alert.alert_type),
              !.alerts = PushBuffer(@, alert),
              !.returned = Append(@, alert),
              !.ret = <<alert>>]

\* `None`
TimedNone(e) == [e EXCEPT !.ret = <<>>]

\* alerts.rs:93-130
TimedEvaluateVolume(e, row, at) ==
    LET history == GetOr(e.vol_baselines, row.symbol, <<>>)
        avg == VolumeAvg(history, row.total_volume)
        pushed_e == [e EXCEPT !.vol_baselines =
                        Put(@, row.symbol, PushHistory(history, row.total_volume))]
    IN IF VolumeHit(row.total_volume, avg, volume_ratio_threshold)
       THEN TimedRaise(pushed_e,
                TimedAlert(pushed_e, "VolumeAnomaly",
                           VolumeSeverity(row.total_volume, avg),
                           <<row.symbol, row.total_volume, avg>>, at))
       ELSE TimedNone(pushed_e)

\* alerts.rs:132-157
TimedEvaluateOhlc(e, row, at) ==
    IF OhlcHit(row, price_range_pct_threshold)
    THEN TimedRaise(e,
             TimedAlert(e, "PriceSpike", OhlcSeverity(row),
                        <<row.symbol, row.price_range, row.open, row.high, row.low>>,
                        at))
    ELSE TimedNone(e)

\* alerts.rs:159-181
TimedEvaluateRapidFire(e, row, at) ==
    IF RapidFireHit(row, rapid_fire_threshold)
    THEN TimedRaise(e,
             TimedAlert(e, "RapidFire", RapidFireSeverity(row),
                        <<row.account_id, row.burst_trades, row.burst_volume>>, at))
    ELSE TimedNone(e)

\* alerts.rs:183-209
TimedEvaluateWash(e, row, at) ==
    IF WashHit(row, wash_imbalance_threshold)
    THEN TimedRaise(e,
             TimedAlert(e, "WashTrading", WashSeverity(row),
                        <<row.account_id, row.symbol, row.buy_volume,
                          row.sell_volume>>, at))
    ELSE TimedNone(e)

\* alerts.rs:211-231
TimedEvaluateMatch(e, row, at) ==
    IF MatchHit(row, match_price_diff_threshold)
    THEN TimedRaise(e,
             TimedAlert(e, "SuspiciousMatch", MatchSeverity(row),
                        <<row.account_id, row.symbol, row.order_id,
                          row.price_diff>>, at))
    ELSE TimedNone(e)

\* One call of the method named op.
TimedEvaluate(e, op, row, at) ==
    CASE op = "volume" -> TimedEvaluateVolume(e, row, at)
      [] op = "ohlc" -> TimedEvaluateOhlc(e, row, at)
      [] op = "rapid_fire" -> TimedEvaluateRapidFire(e, row, at)
      [] op = "wash" -> TimedEvaluateWash(e, row, at)
      [] op = "match" -> TimedEvaluateMatch(e, row, at)

\* Both engines evaluate the same row, each with its own reading.
TwinCall(op, row, at_a, at_b) ==
    /\ twin' = [a |-> TimedEvaluate(twin.a, op, row, at_a),
                b |-> TimedEvaluate(twin.b, op, row, at_b),
                calls |-> twin.calls + 1]
    /\ UNCHANGED <<engineVars, thresholdVars, obsVars, overflow_checks,
                   genVars, genObsVars, trackerVars, trackerObsVars, runVars,
                   driverVars>>

(* SpecTime: two fresh engines with the default thresholds are fed the     *)
(* same rows; the first engine's readings and the second engine's readings *)
(* have no instant and no wall-clock time in common.                       *)

MaxTimedCalls == 3

\* Rows on both sides of every method's threshold.
TimedRows ==
    {<<"volume", r>> : r \in [symbol : {"AAPL"}, total_volume : {1, 3, 11}]}
    \cup {<<"ohlc", r>> : r \in {x \in OhlcRows :
                /\ x.open = 10000 /\ x.low = 10000
                /\ x.price_range \in {20, 501}}}
    \cup {<<"rapid_fire", r>> : r \in {x \in RapidFireRows :
                x.burst_trades \in {4, 21}}}
    \cup {<<"wash", r>> : r \in {x \in WashRows :
                /\ x.buy_count = 2 /\ x.sell_count = 2
                /\ <<x.buy_volume, x.sell_volume>> \in {<<200, 200>>, <<200, 0>>}}}
    \cup {<<"match", r>> : r \in {x \in MatchRows : x.price_diff \in {0, 20000}}}

\* gen_instant is taken before the call, so the clock reads no earlier.
ReadingsA == {[gen_instant |-> 0, now |-> 3, wall |-> 1000]}

ReadingsB ==
    {[gen_instant |-> 5, now |-> 2005, wall |-> 9000],
     [gen_instant |-> 7, now |-> 7, wall |-> 500]}

InitTime == Init

TimedCall ==
    /\ twin.calls < MaxTimedCalls
    /\ \E call \in TimedRows, at_a \in ReadingsA, at_b \in ReadingsB :
          TwinCall(call[1], call[2], at_a, at_b)

NextTime == TimedCall

SpecTime == InitTime /\ [][NextTime]_vars

\* An alert without its two clock fields.
Untimed(alert) ==
    [id |-> alert.id, alert_type |-> alert.alert_type,
     severity |-> alert.severity, description |-> alert.description]

UntimedSeq(s) == [i \in DOMAIN s |-> Untimed(s[i])]

\* C37: two engines with the same thresholds fed the same rows under
\* different detection-start instants and wall-clock times return alerts for
\* the same rows with the same ids, types and severities, and hold the same
\* volume histories, counters, next id and recent alerts; only latency_us
\* and timestamp_ms may differ.
C37_DecisionsIndependentOfTime ==
    /\ UntimedSeq(twin.a.ret) = UntimedSeq(twin.b.ret)
    /\ UntimedSeq(twin.a.returned) = UntimedSeq(twin.b.returned)
    /\ UntimedSeq(twin.a.alerts) = UntimedSeq(twin.b.alerts)
    /\ twin.a.vol_baselines = twin.b.vol_baselines
    /\ twin.a.counts = twin.b.counts
    /\ twin.a.next_id = twin.b.next_id

\* Both engines returned an alert for the third row, their second alert,
\* with different latencies and timestamps, after a row neither alerted on.
C37_Witness ==
    /\ twin.calls = 3
    /\ Len(twin.a.returned) = 2
    /\ twin.a.ret # <<>> /\ twin.b.ret # <<>>
    /\ twin.a.ret[1].latency_us # twin.b.ret[1].latency_us
    /\ twin.a.ret[1].timestamp_ms # twin.b.ret[1].timestamp_ms
    /\ twin.b.ret[1].latency_us > 1000
    /\ twin.a.ret[1].severity = "Medium"
    /\ "AAPL" \in DOMAIN twin.a.vol_baselines

====
